---------------------------- MODULE Spec2Model ----------------------------
(***************************************************************************)
(* Vocabulary practice engine of routes/Deutsch_Vocab_python.py: the       *)
(* in-memory progress document, its JSON file, the request handlers of the *)
(* blueprint and the answer judge; and the word filter of the recap page,  *)
(* routes/deutsch_recap_python.py.                                         *)
(*                                                                         *)
(* Text that the judge inspects (artikel, deutsch, the learner's input) is *)
(* a sequence of one-character strings, so that lower() and strip() are    *)
(* computed as Python computes them.  The english gloss is only ever       *)
(* compared for equality and is an opaque string.  A word of the document  *)
(* is a Python dict: a function whose DOMAIN is the set of keys present.   *)
(***************************************************************************)
EXTENDS Integers, Sequences, FiniteSets, TLC

VARIABLES
    vocab_df,        \* rows of data/vocab.csv held in memory
    progress_data,   \* level -> list of word dicts (module global)
    disk,            \* content of data/progress.json, or NoFile
    save_failures,   \* number of saves that raised so far
    recap_file,      \* content of data/progress2.json, read by the recap page
    last             \* the request being answered and its response, or Idle;
                     \* in ConcSpec the position of each handler thread

vars == <<vocab_df, progress_data, disk, save_failures, recap_file, last>>

-----------------------------------------------------------------------------
(* Bounds of the model *)

MaxCount == 2          \* incorrect_count is not incremented beyond this
MaxInputLen == 4       \* longest answer typed in JudgeSpec

-----------------------------------------------------------------------------
(* Text *)

SP == <<" ">>
Chars == {"a", "b", "A", "B", " "}

LowerChar(c) == CASE c = "A" -> "a" [] c = "B" -> "b" [] OTHER -> c

\* str.lower()
Lower(s) == [i \in 1..Len(s) |-> LowerChar(s[i])]

RECURSIVE LStrip(_)
LStrip(s) == IF s # <<>> /\ Head(s) = " " THEN LStrip(Tail(s)) ELSE s

RECURSIVE RStrip(_)
RStrip(s) ==
    IF s # <<>> /\ s[Len(s)] = " " THEN RStrip(SubSeq(s, 1, Len(s) - 1)) ELSE s

\* str.strip()
Strip(s) == RStrip(LStrip(s))

\* All texts over Chars of length at most n
RECURSIVE TextsUpTo(_)
TextsUpTo(n) ==
    IF n = 0 THEN {<<>>}
    ELSE LET shorter == TextsUpTo(n - 1)
         IN  shorter \cup {Append(t, c) : t \in shorter, c \in Chars}

-----------------------------------------------------------------------------
(* The answer judge, lines 572-590 of deutsch_vocab *)

\* A judge that accepts the bare word whatever articles_mandatory says
is_correct_ignoring_mandatory(user_input, correct_deutsch, artikel, articles_mandatory) ==
    LET user_clean == Strip(Lower(user_input))
        correct_clean == Strip(Lower(correct_deutsch))
        artikel_clean == IF artikel # <<>> THEN Strip(Lower(artikel)) ELSE <<>>
        correct_with_artikel == Strip(artikel_clean \o SP \o correct_clean)
    IN  \/ user_clean = correct_clean
        \/ user_clean = correct_with_artikel
        \/ (artikel_clean # <<>> /\ user_clean = correct_clean \o SP \o artikel_clean)

is_correct(user_input, correct_deutsch, artikel, articles_mandatory) ==
    LET user_clean == Strip(Lower(user_input))
        correct_clean == Strip(Lower(correct_deutsch))
        artikel_clean == IF artikel # <<>> THEN Strip(Lower(artikel)) ELSE <<>>
        correct_with_artikel == Strip(artikel_clean \o SP \o correct_clean)
    IN  IF articles_mandatory /\ artikel_clean # <<>>
        THEN \/ user_clean = correct_with_artikel
             \/ user_clean = correct_clean \o SP \o artikel_clean
        ELSE \/ user_clean = correct_clean
             \/ user_clean = correct_with_artikel
             \/ (artikel_clean # <<>> /\ user_clean = correct_clean \o SP \o artikel_clean)

-----------------------------------------------------------------------------
(* The corpus: data/vocab.csv as read at import, lines 10-18.  An empty    *)
(* Artikel cell (NaN) is the empty text.                                   *)

Row(artikel, deutsch, english, level) ==
    [Artikel |-> artikel, Deutsch |-> deutsch, English |-> english, Level |-> level]

InitialVocab ==
    << Row(<<"a">>, <<"B">>, "dog", "A1.1"),
       Row(<<>>, <<"b", "a">>, "go", "A1.2") >>

\* vocab_df['Level'].dropna().unique()
level_options(df) == {df[i].Level : i \in 1..Len(df)}

\* vocab_df[vocab_df['Level'] == level]
LevelVocab(df, level) == SelectSeq(df, LAMBDA row : row.Level = level)

-----------------------------------------------------------------------------
(* Python dicts *)

HasKey(w, k) == k \in DOMAIN w
SetKey(w, k, v) == [x \in DOMAIN w \cup {k} |-> IF x = k THEN v ELSE w[x]]
DelKey(w, k) == [x \in DOMAIN w \ {k} |-> w[x]]

\* w.get('incorrect_count', 0)
GetCount(w) == IF HasKey(w, "incorrect_count") THEN w.incorrect_count ELSE 0

\* w.get('difficulty') == 'hard'
IsHard(w) == HasKey(w, "difficulty") /\ w.difficulty = "hard"

\* The positions of a list, in order
Positions(words) == [i \in 1..Len(words) |-> i]

-----------------------------------------------------------------------------
(* The store: progress_data and data/progress.json.  The helpers below     *)
(* take and return the pair as a record m = [data, file, fails]; `ok`      *)
(* says whether the write of this call succeeds.                           *)

NoFile == [exists |-> FALSE, content |-> <<>>]
File(doc) == [exists |-> TRUE, content |-> doc]

\* save_progress, lines 90-96: the exception of a failed write is swallowed
save_progress(m, ok) ==
    IF ok
    THEN [m EXCEPT !.file = File(m.data)]
    ELSE [m EXCEPT !.fails = @ + 1]

\* lines 58-64
WordEntry(artikel, deutsch, english) ==
    [artikel |-> artikel, deutsch |-> deutsch, english |-> english,
     status |-> "notyetanswered", incorrect_count |-> 0]

\* lines 50-65: the entries of a level built from the corpus
FreshLevel(df, level) ==
    LET rows == LevelVocab(df, level)
    IN  [i \in 1..Len(rows) |->
            WordEntry(rows[i].Artikel, rows[i].Deutsch, rows[i].English)]

\* lines 67-70: the level is kept in the old format, a list of
\* [artikel, deutsch, english] lists.  A list item of the file is written
\* [list |-> <<...>>], a dict item is the function of its keys.
IsOldFormat(words) == words # <<>> /\ HasKey(words[1], "list")

\* lines 72-84: the old items of three fields or more, as word dicts
Converted(words) ==
    LET kept == SelectSeq(words, LAMBDA item : Len(item.list) >= 3)
    IN  [i \in 1..Len(kept) |->
            WordEntry(kept[i].list[1], kept[i].list[2], kept[i].list[3])]

\* An initialize_missing_levels that rebuilds every level of the corpus when
\* one is missing
initialize_missing_levels_rebuilds(m, df, ok) ==
    LET missing == level_options(df) \ DOMAIN m.data
        filled == [l \in DOMAIN m.data \cup missing |->
                      IF l \in level_options(df) THEN FreshLevel(df, l) ELSE m.data[l]]
    IN  IF missing # {}
        THEN save_progress([m EXCEPT !.data = filled], ok)
        ELSE m

\* initialize_missing_levels, lines 45-88
initialize_missing_levels(m, df, ok) ==
    LET missing == level_options(df) \ DOMAIN m.data
        old == {l \in level_options(df) \cap DOMAIN m.data : IsOldFormat(m.data[l])}
        filled == [l \in DOMAIN m.data \cup missing |->
                      IF l \in missing THEN FreshLevel(df, l)
                      ELSE IF l \in old THEN Converted(m.data[l])
                      ELSE m.data[l]]
    IN  IF missing \cup old # {}
        THEN save_progress([m EXCEPT !.data = filled], ok)
        ELSE m

\* `if level not in progress_data: initialize_missing_levels()`
EnsureLevel(m, df, level, ok) ==
    IF level \in DOMAIN m.data THEN m ELSE initialize_missing_levels(m, df, ok)

\* load_progress, lines 27-43
load_progress(file, df, ok) ==
    LET loaded == IF file.exists THEN file.content ELSE <<>>
    IN  initialize_missing_levels([data |-> loaded, file |-> file, fails |-> 0], df, ok)

\* The linear scan shared by the helpers: index of the first record with
\* this identity, 0 when none
FindWord(words, artikel, deutsch, english) ==
    LET hits == {i \in 1..Len(words) :
                    /\ words[i].artikel = artikel
                    /\ words[i].deutsch = deutsch
                    /\ words[i].english = english}
    IN  IF hits = {} THEN 0 ELSE CHOOSE i \in hits : \A j \in hits : i <= j


\* What a helper hands back: the store, its return value, and whether
\* progress_data[level] raised KeyError
Returned(m, ret) == [m |-> m, ret |-> ret, raised |-> FALSE]
Raised(m) == [m |-> m, ret |-> 0, raised |-> TRUE]

\* An update_word_status that starts the word's count over
update_word_status_resets_count(m0, df, level, artikel, deutsch, english, new_status, ok) ==
    LET m == EnsureLevel(m0, df, level, ok)
    IN  IF level \notin DOMAIN m.data THEN Raised(m)
        ELSE LET i == FindWord(m.data[level], artikel, deutsch, english)
             IN  IF i = 0 THEN Returned(m, 0)
                 ELSE Returned(
                        save_progress(
                          [m EXCEPT !.data[level][i] =
                              SetKey(SetKey(@, "status", new_status), "incorrect_count", 0)],
                          ok),
                        1)

\* update_word_status, lines 121-133
update_word_status(m0, df, level, artikel, deutsch, english, new_status, ok) ==
    LET m == EnsureLevel(m0, df, level, ok)
    IN  IF level \notin DOMAIN m.data THEN Raised(m)
        ELSE LET i == FindWord(m.data[level], artikel, deutsch, english)
             IN  IF i = 0 THEN Returned(m, 0)
                 ELSE Returned(
                        save_progress(
                          [m EXCEPT !.data[level][i] = SetKey(@, "status", new_status)],
                          ok),
                        1)

\* An increment_incorrect_count that writes 1 instead of adding 1
increment_incorrect_count_sets_one(m0, df, level, artikel, deutsch, english, ok) ==
    LET m == EnsureLevel(m0, df, level, ok)
    IN  IF level \notin DOMAIN m.data THEN Raised(m)
        ELSE LET i == FindWord(m.data[level], artikel, deutsch, english)
             IN  IF i = 0 THEN Returned(m, 0)
                 ELSE Returned(
                        save_progress(
                          [m EXCEPT !.data[level][i] = SetKey(@, "incorrect_count", 1)],
                          ok),
                        1)

\* An increment_incorrect_count that also marks the word incorrect
increment_incorrect_count_marks_incorrect(m0, df, level, artikel, deutsch, english, ok) ==
    LET m == EnsureLevel(m0, df, level, ok)
    IN  IF level \notin DOMAIN m.data THEN Raised(m)
        ELSE LET i == FindWord(m.data[level], artikel, deutsch, english)
                 n == GetCount(m.data[level][i]) + 1
             IN  IF i = 0 THEN Returned(m, 0)
                 ELSE Returned(
                        save_progress(
                          [m EXCEPT !.data[level][i] =
                              SetKey(SetKey(@, "incorrect_count", n), "status", "incorrect")],
                          ok),
                        n)

\* increment_incorrect_count, lines 135-150
increment_incorrect_count(m0, df, level, artikel, deutsch, english, ok) ==
    LET m == EnsureLevel(m0, df, level, ok)
    IN  IF level \notin DOMAIN m.data THEN Raised(m)
        ELSE LET i == FindWord(m.data[level], artikel, deutsch, english)
                 n == GetCount(m.data[level][i]) + 1
             IN  IF i = 0 THEN Returned(m, 0)
                 ELSE Returned(
                        save_progress(
                          [m EXCEPT !.data[level][i] = SetKey(@, "incorrect_count", n)],
                          ok),
                        n)

\* A mark_word_difficulty that takes the mark off a word already marked hard
mark_word_difficulty_toggles(m0, df, level, artikel, deutsch, english, is_difficult, ok) ==
    LET m == EnsureLevel(m0, df, level, ok)
    IN  IF level \notin DOMAIN m.data THEN Raised(m)
        ELSE LET i == FindWord(m.data[level], artikel, deutsch, english)
                 w == m.data[level][i]
                 marked == IF is_difficult /\ ~IsHard(w) THEN SetKey(w, "difficulty", "hard")
                           ELSE DelKey(w, "difficulty")
             IN  IF i = 0 THEN Returned(m, 0)
                 ELSE Returned(
                        save_progress([m EXCEPT !.data[level][i] = marked], ok), 1)

\* A mark_word_difficulty whose unmarking puts the word back to unanswered
mark_word_difficulty_reopens(m0, df, level, artikel, deutsch, english, is_difficult, ok) ==
    LET m == EnsureLevel(m0, df, level, ok)
    IN  IF level \notin DOMAIN m.data THEN Raised(m)
        ELSE LET i == FindWord(m.data[level], artikel, deutsch, english)
                 w == m.data[level][i]
                 marked == IF is_difficult THEN SetKey(w, "difficulty", "hard")
                           ELSE SetKey(DelKey(w, "difficulty"), "status", "notyetanswered")
             IN  IF i = 0 THEN Returned(m, 0)
                 ELSE Returned(
                        save_progress([m EXCEPT !.data[level][i] = marked], ok), 1)

\* mark_word_difficulty, lines 200-216
mark_word_difficulty(m0, df, level, artikel, deutsch, english, is_difficult, ok) ==
    LET m == EnsureLevel(m0, df, level, ok)
    IN  IF level \notin DOMAIN m.data THEN Raised(m)
        ELSE LET i == FindWord(m.data[level], artikel, deutsch, english)
                 w == m.data[level][i]
                 marked == IF is_difficult THEN SetKey(w, "difficulty", "hard")
                           ELSE DelKey(w, "difficulty")
             IN  IF i = 0 THEN Returned(m, 0)
                 ELSE Returned(
                        save_progress([m EXCEPT !.data[level][i] = marked], ok), 1)

\* reset_word_incorrect_count, lines 186-198 (no route calls it)
reset_word_incorrect_count(m0, df, level, artikel, deutsch, english, ok) ==
    LET m == EnsureLevel(m0, df, level, ok)
    IN  IF level \notin DOMAIN m.data THEN Raised(m)
        ELSE LET i == FindWord(m.data[level], artikel, deutsch, english)
             IN  IF i = 0 THEN Returned(m, 0)
                 ELSE Returned(
                        save_progress(
                          [m EXCEPT !.data[level][i] = SetKey(@, "incorrect_count", 0)],
                          ok),
                        1)

\* A get_words_to_practice that leaves the incorrect words out
get_words_to_practice_unanswered_only(m0, df, level, difficult_only, ok) ==
    LET m == EnsureLevel(m0, df, level, ok)
    IN  IF level \notin DOMAIN m.data THEN Raised(m)
        ELSE LET words == m.data[level]
                 words_to_practice ==
                     SelectSeq(Positions(words),
                         LAMBDA i : words[i].status = "notyetanswered")
             IN  Returned(m,
                     IF difficult_only
                     THEN SelectSeq(words_to_practice, LAMBDA i : IsHard(words[i]))
                     ELSE words_to_practice)

\* get_words_to_practice, lines 98-119.  The list returned holds the dicts
\* of progress_data themselves: it is given as their positions in the level.
get_words_to_practice(m0, df, level, difficult_only, ok) ==
    LET m == EnsureLevel(m0, df, level, ok)
    IN  IF level \notin DOMAIN m.data THEN Raised(m)
        ELSE LET words == m.data[level]
                 words_to_practice ==
                     SelectSeq(Positions(words),
                         LAMBDA i : words[i].status \in {"notyetanswered", "incorrect"})
             IN  Returned(m,
                     IF difficult_only
                     THEN SelectSeq(words_to_practice, LAMBDA i : IsHard(words[i]))
                     ELSE words_to_practice)

\* A back-fill without its test: word['incorrect_count'] = 0 on every word
Backfill_overwrites(words) ==
    [i \in 1..Len(words) |-> SetKey(words[i], "incorrect_count", 0)]

\* `if 'incorrect_count' not in word: word['incorrect_count'] = 0` over a level
Backfill(words) ==
    [i \in 1..Len(words) |->
        IF HasKey(words[i], "incorrect_count") THEN words[i]
        ELSE SetKey(words[i], "incorrect_count", 0)]

SumCounts(words) ==
    LET RECURSIVE upto(_)
        upto(n) == IF n = 0 THEN 0 ELSE upto(n - 1) + GetCount(words[n])
    IN  upto(Len(words))

MaxOf(S) == IF S = {} THEN 0 ELSE CHOOSE x \in S : \A y \in S : y <= x

HowMany(words, status) == Cardinality({i \in 1..Len(words) : words[i].status = status})

\* Statistics whose completed flag overlooks the incorrect words
StatsOf_overlooking_incorrect(words) ==
    [total |-> Len(words),
     correct |-> HowMany(words, "correct"),
     incorrect |-> HowMany(words, "incorrect"),
     not_answered |-> HowMany(words, "notyetanswered"),
     completed |-> (HowMany(words, "notyetanswered") = 0),
     total_incorrect_attempts |-> SumCounts(words),
     words_with_errors |-> Cardinality({i \in 1..Len(words) : GetCount(words[i]) > 0}),
     most_difficult_count |-> MaxOf({GetCount(words[i]) : i \in 1..Len(words)})]

\* lines 254-273
StatsOf(words) ==
    [total |-> Len(words),
     correct |-> HowMany(words, "correct"),
     incorrect |-> HowMany(words, "incorrect"),
     not_answered |-> HowMany(words, "notyetanswered"),
     completed |-> (HowMany(words, "notyetanswered") = 0
                    /\ HowMany(words, "incorrect") = 0),
     total_incorrect_attempts |-> SumCounts(words),
     words_with_errors |-> Cardinality({i \in 1..Len(words) : GetCount(words[i]) > 0}),
     most_difficult_count |-> MaxOf({GetCount(words[i]) : i \in 1..Len(words)})]

\* get_completion_stats, lines 244-273
get_completion_stats(m0, df, level, ok) ==
    LET m == EnsureLevel(m0, df, level, ok)
    IN  IF level \notin DOMAIN m.data THEN Raised(m)
        ELSE LET filled == [m EXCEPT !.data[level] = Backfill(@)]
             IN  Returned(filled, StatsOf(filled.data[level]))

\* An insertion that puts a position ahead of the positions of equal count
RECURSIVE InsertDesc_unstable(_, _, _)
InsertDesc_unstable(sorted, i, words) ==
    IF sorted = <<>> THEN <<i>>
    ELSE IF GetCount(words[Head(sorted)]) > GetCount(words[i])
         THEN <<Head(sorted)>> \o InsertDesc_unstable(Tail(sorted), i, words)
         ELSE <<i>> \o sorted

\* sorted(..., key=incorrect_count, reverse=True), lines 175-179: a stable
\* sort, so that records with equal keys keep their order.  Positions are
\* inserted one by one, each behind every position whose count is not smaller.
RECURSIVE InsertDesc(_, _, _)
InsertDesc(sorted, i, words) ==
    IF sorted = <<>> THEN <<i>>
    ELSE IF GetCount(words[Head(sorted)]) >= GetCount(words[i])
         THEN <<Head(sorted)>> \o InsertDesc(Tail(sorted), i, words)
         ELSE <<i>> \o sorted

RECURSIVE SortedDesc(_, _)
SortedDesc(n, words) ==
    IF n = 0 THEN <<>> ELSE InsertDesc(SortedDesc(n - 1, words), n, words)

\* seq[:limit]
Slice(seq, limit) ==
    IF limit >= 0 THEN SubSeq(seq, 1, IF limit < Len(seq) THEN limit ELSE Len(seq))
    ELSE SubSeq(seq, 1, Len(seq) + limit)

\* A get_most_difficult_words that sorts the level itself, progress_data[level].sort(...)
get_most_difficult_words_sorts_in_place(m0, df, level, limit, ok) ==
    LET m == EnsureLevel(m0, df, level, ok)
    IN  IF level \notin DOMAIN m.data THEN Raised(m)
        ELSE LET words == Backfill(m.data[level])
                 order == SortedDesc(Len(words), words)
                 sorted == [m EXCEPT !.data[level] = [k \in 1..Len(words) |-> words[order[k]]]]
                 difficult_words == SelectSeq(Positions(words),
                                        LAMBDA k : GetCount(sorted.data[level][k]) > 0)
             IN  Returned(sorted, Slice(difficult_words, limit))

\* get_most_difficult_words, lines 164-184; the words returned are given
\* as their positions in the level
get_most_difficult_words(m0, df, level, limit, ok) ==
    LET m == EnsureLevel(m0, df, level, ok)
    IN  IF level \notin DOMAIN m.data THEN Raised(m)
        ELSE LET filled == [m EXCEPT !.data[level] = Backfill(@)]
                 words == filled.data[level]
                 difficult_words == SelectSeq(SortedDesc(Len(words), words),
                                        LAMBDA i : GetCount(words[i]) > 0)
             IN  Returned(filled, Slice(difficult_words, limit))

-----------------------------------------------------------------------------
(* Requests *)

DefaultLevel == "A1.1"
UnknownLevel == "B9"
UnknownWord == [artikel |-> <<>>, deutsch |-> <<"b">>, english |-> "none"]

Ident(w) == [artikel |-> w.artikel, deutsch |-> w.deutsch, english |-> w.english]

\* (word_level, identity) pairs a form can carry: a word of the document
\* with its level, a word that is not in the level, a level that is not in
\* the corpus
Targets ==
    UNION {{[level |-> l, id |-> Ident(progress_data[l][i])] :
               i \in 1..Len(progress_data[l])} : l \in DOMAIN progress_data}
    \cup {[level |-> DefaultLevel, id |-> UnknownWord],
          [level |-> UnknownLevel, id |-> UnknownWord]}

\* What the learner sends for a word: the bare word with and without the
\* articles_mandatory toggle, or another text
Answers(id) ==
    {[typed |-> id.deutsch, mandatory |-> FALSE],
     [typed |-> id.deutsch, mandatory |-> TRUE],
     [typed |-> <<"b", "b">>, mandatory |-> FALSE]}

\* Outcomes of the (at most three) writes of one request: all succeed
AllSaved == [k \in 1..3 |-> TRUE]

Store == [data |-> progress_data, file |-> disk, fails |-> save_failures]

Idle == [op |-> "idle"]

Counts(doc) ==
    UNION {{GetCount(doc[l][i]) : i \in 1..Len(doc[l])} : l \in DOMAIN doc}

-----------------------------------------------------------------------------
(* Start of the process: the module is imported and load_progress() runs   *)
(* (lines 279 and 871) on whatever data/progress.json holds.               *)

LegacyWord(artikel, deutsch, english, status) ==
    [artikel |-> artikel, deutsch |-> deutsch, english |-> english, status |-> status]

\* A file written before incorrect_count existed, holding one level only
LegacyFile ==
    File([l \in {"A1.1"} |-> << LegacyWord(<<"a">>, <<"B">>, "dog", "incorrect") >>])

InitialFiles == {NoFile, LegacyFile}

Init ==
    /\ vocab_df = InitialVocab
    /\ \E file \in InitialFiles :
          LET m == load_progress(file, InitialVocab, TRUE)
          IN  /\ progress_data = m.data
              /\ disk = m.file
              /\ save_failures = m.fails
    /\ recap_file = NoFile
    /\ last = Idle

\* What a handler hands back: the store it leaves and the response it sends
Outcome(m, response) == [m |-> m, response |-> response]

\* The server is waiting for a request: requests are served one at a time
Waiting == last = Idle

\* A request is served
Serve(out) ==
    /\ Counts(out.m.data) \subseteq 0..MaxCount
    /\ progress_data' = out.m.data
    /\ disk' = out.m.file
    /\ save_failures' = out.m.fails
    /\ last' = out.response
    /\ UNCHANGED <<vocab_df, recap_file>>

\* Position of the addressed word when the request arrives, 0 when none
Addressed(doc, level, artikel, deutsch, english) ==
    IF level \in DOMAIN doc THEN FindWord(doc[level], artikel, deutsch, english)
    ELSE 0

-----------------------------------------------------------------------------
(* POST /Deutsch_Vocab_html with english_word and no correction,           *)
(* lines 479-494 and 572-682                                               *)

\* A scoring that writes the status on retries too
Scored_on_retries(m, df, word_level, artikel, correct_deutsch, english_word, is_retry, correct, ok) ==
    update_word_status(m, df, word_level, artikel, correct_deutsch, english_word,
        IF correct THEN "correct" ELSE "incorrect", ok)

\* lines 607-611 and 633-635: the status written by a scored first attempt
Scored(m, df, word_level, artikel, correct_deutsch, english_word, is_retry, correct, ok) ==
    IF is_retry THEN Returned(m, 0)
    ELSE update_word_status(m, df, word_level, artikel, correct_deutsch, english_word,
             IF correct THEN "correct" ELSE "incorrect", ok)

\* lines 636 and 659: the count of a wrong answer
Counted(r, df, word_level, artikel, correct_deutsch, english_word, correct, ok) ==
    IF r.raised \/ correct THEN r
    ELSE increment_incorrect_count(r.m, df, word_level, artikel, correct_deutsch,
             english_word, ok)

\* lines 489-493
PreMarked(m, df, word_level, artikel, correct_deutsch, english_word, pre_difficulty, ok) ==
    IF pre_difficulty # "none"
    THEN mark_word_difficulty(m, df, word_level, artikel, correct_deutsch,
             english_word, pre_difficulty = "true", ok)
    ELSE Returned(m, 0)

submit_answer(m, df, word_level, artikel_raw, deutsch_raw, english_word, user_raw, is_retry, pre_difficulty, articles_mandatory, oks) ==
    LET user_input == Strip(user_raw)
        correct_deutsch == Strip(deutsch_raw)
        artikel == Strip(artikel_raw)
        correct == is_correct(user_input, correct_deutsch, artikel, articles_mandatory)
        r1 == PreMarked(m, df, word_level, artikel, correct_deutsch, english_word,
                        pre_difficulty, oks[1])
        r2 == IF r1.raised THEN r1
              ELSE Scored(r1.m, df, word_level, artikel, correct_deutsch, english_word,
                          is_retry, correct, oks[2])
        r3 == Counted(r2, df, word_level, artikel, correct_deutsch, english_word,
                      correct, oks[3])
        result == IF r3.raised THEN "exception"
                  ELSE IF correct THEN "success"
                  ELSE IF ~is_retry THEN "retry_with_correction"
                  ELSE "error_with_correction"
    IN  Outcome(r3.m,
            [op |-> "submit", level |-> word_level,
             idx |-> Addressed(m.data, word_level, artikel, correct_deutsch, english_word),
             is_retry |-> is_retry, correct |-> correct, result |-> result])

SubmitAnswer(t, user_raw, is_retry, pre_difficulty, articles_mandatory, oks) ==
    /\ Waiting
    /\ \E out \in {submit_answer(Store, vocab_df, t.level, t.id.artikel, t.id.deutsch,
                    t.id.english, user_raw, is_retry, pre_difficulty,
                    articles_mandatory, oks)} :
        Serve(out)

\* POST /Deutsch_Vocab_html with mark_difficulty, lines 684-703
mark_difficulty(m, df, word_level, artikel_raw, deutsch_raw, english, difficulty, ok) ==
    LET artikel == Strip(artikel_raw)
        deutsch == Strip(deutsch_raw)
        r == mark_word_difficulty(m, df, word_level, artikel, deutsch, english,
                 difficulty, ok)
        result == IF r.raised THEN "exception"
                  ELSE IF r.ret = 1 THEN "difficulty_updated" ELSE "error"
    IN  Outcome(r.m,
            [op |-> "mark_difficulty", level |-> word_level,
             idx |-> Addressed(m.data, word_level, artikel, deutsch, english),
             difficulty |-> difficulty, result |-> result])

MarkDifficulty(t, difficulty, ok) ==
    /\ Waiting
    /\ \E out \in {mark_difficulty(Store, vocab_df, t.level, t.id.artikel, t.id.deutsch,
                    t.id.english, difficulty, ok)} :
        Serve(out)

-----------------------------------------------------------------------------
(* GET /Deutsch_Vocab_html, or a POST that is neither a submission nor a   *)
(* difficulty mark: lines 459-477 and 705-788                              *)

\* lines 463-466
ValidLevels(levels, df) ==
    LET valid == SelectSeq(levels, LAMBDA l : l \in level_options(df))
    IN  IF valid = <<>> THEN <<DefaultLevel>> ELSE valid

\* line 714: word['level'] = level on every dict of the list
TagLevel(words, picked, level) ==
    [i \in 1..Len(words) |->
        IF \E k \in 1..Len(picked) : picked[k] = i
        THEN SetKey(words[i], "level", level)
        ELSE words[i]]

NoStats == [total |-> 0, correct |-> 0, incorrect |-> 0, not_answered |-> 0,
            completed |-> TRUE]

\* lines 711-725: one round of the loop over the selected levels
GatherLevel(g, df, level, difficult_only) ==
    LET r == get_words_to_practice(g.m, df, level, difficult_only, TRUE)
        tagged == [r.m EXCEPT !.data[level] = TagLevel(@, r.ret, level)]
        c == get_completion_stats(tagged, df, level, TRUE)
    IN  IF g.raised THEN g
        ELSE IF r.raised THEN [g EXCEPT !.m = r.m, !.raised = TRUE]
        ELSE [m |-> c.m,
              pool |-> g.pool \o [k \in 1..Len(r.ret) |->
                                    [level |-> level, idx |-> r.ret[k]]],
              stats |-> [total |-> g.stats.total + c.ret.total,
                         correct |-> g.stats.correct + c.ret.correct,
                         incorrect |-> g.stats.incorrect + c.ret.incorrect,
                         not_answered |-> g.stats.not_answered + c.ret.not_answered,
                         completed |-> g.stats.completed /\ c.ret.completed],
              raised |-> FALSE]

\* lines 707-725 for the first n of the selected levels
RECURSIVE Gather(_, _, _, _, _)
Gather(m0, df, levels, n, difficult_only) ==
    IF n = 0
    THEN [m |-> m0, pool |-> <<>>, stats |-> NoStats, raised |-> FALSE]
    ELSE GatherLevel(Gather(m0, df, levels, n - 1, difficult_only), df, levels[n],
                     difficult_only)

\* A handler that looks at the pool before it looks at the completion
fetch_next_word_checks_pool_first(m, df, levels, difficult_only, pick) ==
    LET selected_levels == ValidLevels(levels, df)
        g == Gather(m, df, selected_levels, Len(selected_levels), difficult_only)
        shown == ~g.raised /\ g.pool # <<>> /\ pick \in 1..Len(g.pool)
        result == IF g.raised THEN "exception"
                  ELSE IF g.pool = <<>> THEN "error"
                  ELSE IF g.stats.completed THEN "completed"
                  ELSE "word"
    IN  Outcome(g.m,
            [op |-> "fetch", levels |-> selected_levels,
             difficult_only |-> difficult_only, result |-> result,
             pool |-> g.pool, stats |-> g.stats,
             level |-> IF shown THEN g.pool[pick].level ELSE "",
             idx |-> IF shown THEN g.pool[pick].idx ELSE 0])

\* lines 727-755; `pick` is the draw of random.choice
fetch_next_word(m, df, levels, difficult_only, pick) ==
    LET selected_levels == ValidLevels(levels, df)
        g == Gather(m, df, selected_levels, Len(selected_levels), difficult_only)
        shown == ~g.raised /\ ~g.stats.completed /\ pick \in 1..Len(g.pool)
        result == IF g.raised THEN "exception"
                  ELSE IF g.stats.completed THEN "completed"
                  ELSE IF g.pool = <<>> THEN "error"
                  ELSE "word"
    IN  Outcome(g.m,
            [op |-> "fetch", levels |-> selected_levels,
             difficult_only |-> difficult_only, result |-> result,
             pool |-> g.pool, stats |-> g.stats,
             level |-> IF shown THEN g.pool[pick].level ELSE "",
             idx |-> IF shown THEN g.pool[pick].idx ELSE 0])

FetchNextWord(levels, difficult_only, pick) ==
    /\ Waiting
    /\ \E out \in {fetch_next_word(Store, vocab_df, levels, difficult_only, pick)} :
        /\ pick <= (IF out.response.result = "word" THEN Len(out.response.pool) ELSE 1)
        /\ Serve(out)

\* GET /vocab/<level>/progress, lines 800-825
get_level_progress(m, df, level) ==
    LET known == LevelVocab(df, level) # <<>>
        r == IF known THEN get_completion_stats(m, df, level, TRUE)
             ELSE Returned(m, NoStats)
        ok == known /\ ~r.raised
    IN  Outcome(r.m,
            [op |-> "progress", level |-> level,
             result |-> IF ok THEN "success" ELSE "error",
             stats |-> IF ok THEN r.ret ELSE NoStats])

GetLevelProgress(level) ==
    /\ Waiting
    /\ \E out \in {get_level_progress(Store, vocab_df, level)} : Serve(out)

\* A reset that rebuilds the level from the corpus
reset_level_progress_rebuilds(m, df, level, ok) ==
    Outcome(
        IF level \in DOMAIN m.data
        THEN save_progress([m EXCEPT !.data[level] = FreshLevel(df, level)], ok)
        ELSE initialize_missing_levels(m, df, ok),
        [op |-> "reset_level", level |-> level, result |-> "success"])

\* POST /vocab/<level>/reset, lines 828-849
reset_level_progress(m, df, level, ok) ==
    Outcome(
        IF level \in DOMAIN m.data
        THEN save_progress(
               [m EXCEPT !.data[level] =
                   [i \in 1..Len(@) |->
                       SetKey(SetKey(@[i], "status", "notyetanswered"),
                              "incorrect_count", 0)]],
               ok)
        ELSE initialize_missing_levels(m, df, ok),
        [op |-> "reset_level", level |-> level, result |-> "success"])

ResetLevel(level, ok) ==
    /\ Waiting
    /\ \E out \in {reset_level_progress(Store, vocab_df, level, ok)} : Serve(out)

\* A reset-all that keeps the document and only fills in missing levels
reset_all_progress_keeps(m, df, ok1, ok2) ==
    Outcome(
        save_progress(initialize_missing_levels(m, df, ok1), ok2),
        [op |-> "reset_all", level |-> "", result |-> "success"])

\* POST /vocab/reset-all, lines 852-868
reset_all_progress(m, df, ok1, ok2) ==
    Outcome(
        save_progress(initialize_missing_levels([m EXCEPT !.data = <<>>], df, ok1), ok2),
        [op |-> "reset_all", level |-> "", result |-> "success"])

ResetAll(ok1, ok2) ==
    /\ Waiting
    /\ \E out \in {reset_all_progress(Store, vocab_df, ok1, ok2)} : Serve(out)

\* GET /vocab/<level>/difficult-words, lines 874-889
get_difficult_words(m, df, level, limit) ==
    LET r == get_most_difficult_words(m, df, level, limit, TRUE)
    IN  Outcome(r.m,
            [op |-> "difficult_words", level |-> level, limit |-> limit,
             result |-> IF r.raised THEN "error" ELSE "success",
             words |-> IF r.raised THEN <<>> ELSE r.ret])

GetDifficultWords(level, limit) ==
    /\ Waiting
    /\ \E out \in {get_difficult_words(Store, vocab_df, level, limit)} : Serve(out)

TopLimit == 5

\* GET /vocab/<level>/stats, lines 892-907
get_level_stats(m, df, level) ==
    LET c == get_completion_stats(m, df, level, TRUE)
        d == get_most_difficult_words(c.m, df, level, TopLimit, TRUE)
        raised == c.raised \/ d.raised
    IN  Outcome(IF c.raised THEN c.m ELSE d.m,
            [op |-> "stats", level |-> level,
             result |-> IF raised THEN "error" ELSE "success",
             stats |-> IF raised THEN NoStats ELSE c.ret,
             words |-> IF raised THEN <<>> ELSE d.ret])

GetLevelStats(level) ==
    /\ Waiting
    /\ \E out \in {get_level_stats(Store, vocab_df, level)} : Serve(out)

\* POST /vocab/<level>/reset-incorrect-counts, lines 910-929
reset_level_incorrect_counts(m, df, level, ok) ==
    IF level \notin DOMAIN m.data
    THEN Outcome(m, [op |-> "reset_counts", level |-> level, result |-> "error"])
    ELSE Outcome(
           save_progress(
             [m EXCEPT !.data[level] =
                 [i \in 1..Len(@) |-> SetKey(@[i], "incorrect_count", 0)]],
             ok),
           [op |-> "reset_counts", level |-> level, result |-> "success"])

ResetLevelIncorrectCounts(level, ok) ==
    /\ Waiting
    /\ \E out \in {reset_level_incorrect_counts(Store, vocab_df, level, ok)} : Serve(out)

-----------------------------------------------------------------------------
(* POST /Deutsch_Vocab_html with english_word and is_correction,           *)
(* lines 495-570, update_vocab_csv and sync_progress_with_vocab_change     *)

\* ' '.join(s.split()): runs of spaces become one space
RECURSIVE Collapse(_)
Collapse(s) ==
    IF Len(s) < 2 THEN s
    ELSE IF s[1] = " " /\ s[2] = " " THEN Collapse(Tail(s))
    ELSE <<s[1]>> \o Collapse(Tail(s))

\* normalize_string, lines 295-302, on the text of a Deutsch cell.  The
\* English cells of the corpus are single words, equal to their normal form.
normalize_string(s) == Collapse(Strip(s))

\* normalize_artikel, lines 305-312
normalize_artikel(s) ==
    IF Strip(Lower(s)) = <<"n", "o", "n", "e">> THEN <<>> ELSE Collapse(Strip(s))

\* A sync_progress_with_vocab_change that writes the corrected word as a new
\* entry
sync_progress_with_vocab_change_renews(m, level, old_english, old_german, old_artikel, new_english, new_german, new_artikel, ok) ==
    IF level \notin DOMAIN m.data THEN Returned(m, 0)
    ELSE LET i == FindWord(m.data[level], old_artikel, old_german, old_english)
             w == m.data[level][i]
             renewed == WordEntry(new_artikel,
                                  IF new_german # <<>> THEN new_german ELSE w.deutsch,
                                  IF new_english # "" THEN new_english ELSE w.english)
         IN  IF i = 0 THEN Returned(m, 0)
             ELSE Returned(save_progress([m EXCEPT !.data[level][i] = renewed], ok), 1)

\* sync_progress_with_vocab_change, lines 218-242.  new_artikel is the text
\* of line 499, never None, so that line 235 always runs.
sync_progress_with_vocab_change(m, level, old_english, old_german, old_artikel, new_english, new_german, new_artikel, ok) ==
    IF level \notin DOMAIN m.data THEN Returned(m, 0)
    ELSE LET i == FindWord(m.data[level], old_artikel, old_german, old_english)
             w == m.data[level][i]
             w1 == IF new_english # "" THEN SetKey(w, "english", new_english) ELSE w
             w2 == IF new_german # <<>> THEN SetKey(w1, "deutsch", new_german) ELSE w1
             w3 == SetKey(w2, "artikel", new_artikel)
         IN  IF i = 0 THEN Returned(m, 0)
             ELSE Returned(save_progress([m EXCEPT !.data[level][i] = w3], ok), 1)

\* lines 321-327: the rows of the corpus the correction is about, of any level
Mask(df, english_word, old_german, old_artikel) ==
    {i \in 1..Len(df) :
        /\ df[i].English = english_word
        /\ normalize_string(df[i].Deutsch) = normalize_string(old_german)
        /\ normalize_artikel(df[i].Artikel) = normalize_artikel(old_artikel)}

\* lines 361-369: a row of the mask with the corrected values
CorrectedRow(row, english_word, old_german, old_artikel, new_german, new_english, new_artikel) ==
    [row EXCEPT
        !.English = IF new_english # "" /\ new_english # english_word
                    THEN new_english ELSE @,
        !.Deutsch = IF new_german # <<>>
                       /\ normalize_string(new_german) # normalize_string(old_german)
                    THEN new_german ELSE @,
        !.Artikel = IF normalize_artikel(new_artikel) # normalize_artikel(old_artikel)
                    THEN new_artikel ELSE @]

\* update_vocab_csv, lines 281-429, on a corpus without a Beispielsatz
\* column; `writable` is os.access(csv_path, os.W_OK)
update_vocab_csv(m, df, english_word, old_german, old_artikel, new_german, new_english, new_artikel, level, writable, ok) ==
    LET mask == Mask(df, english_word, old_german, old_artikel)
        fixed == [i \in 1..Len(df) |->
                     IF i \in mask
                     THEN CorrectedRow(df[i], english_word, old_german, old_artikel,
                                       new_german, new_english, new_artikel)
                     ELSE df[i]]
        synced == sync_progress_with_vocab_change(m, level, english_word, old_german,
                      old_artikel, new_english, new_german, new_artikel, ok)
    IN  IF ~writable \/ mask = {}
        THEN [m |-> m, df |-> df, ret |-> FALSE]
        ELSE [m |-> synced.m, df |-> fixed, ret |-> TRUE]

\* The correction fields of the form, lines 497-500
Patch(german, english, artikel, beispielsatz) ==
    [german |-> german, english |-> english, artikel |-> artikel,
     beispielsatz |-> beispielsatz]

\* line 502
IsCorrection(is_correction, corrected) ==
    /\ is_correction
    /\ \/ Strip(corrected.german) # <<>>
       \/ corrected.english # ""
       \/ Strip(corrected.artikel) # <<>>
       \/ corrected.beispielsatz # ""

\* lines 489-570: the submission is a correction
submit_correction(m, df, word_level, artikel_raw, deutsch_raw, english_word, is_retry, pre_difficulty, corrected, writable, oks) ==
    LET correct_deutsch == Strip(deutsch_raw)
        artikel == Strip(artikel_raw)
        r1 == PreMarked(m, df, word_level, artikel, correct_deutsch, english_word,
                        pre_difficulty, oks[1])
        u == update_vocab_csv(r1.m, df, english_word, correct_deutsch, artikel,
                 Strip(corrected.german), corrected.english, Strip(corrected.artikel),
                 word_level, writable, oks[2])
        response == [op |-> "correction", level |-> word_level,
                     idx |-> Addressed(m.data, word_level, artikel, correct_deutsch,
                                       english_word),
                     pre_difficulty |-> pre_difficulty, corrected |-> corrected,
                     result |-> IF r1.raised THEN "exception" ELSE "correction_submitted",
                     update_success |-> ~r1.raised /\ u.ret]
    IN  IF r1.raised THEN [m |-> r1.m, df |-> df, response |-> response]
        ELSE [m |-> u.m, df |-> u.df, response |-> response]

\* A handler that scores the answer of a correction form before correcting
submit_word_scoring_corrections(m, df, word_level, artikel_raw, deutsch_raw, english_word, user_raw, is_retry, pre_difficulty, articles_mandatory, is_correction, corrected, writable, oks) ==
    LET out == submit_answer(m, df, word_level, artikel_raw, deutsch_raw,
                   english_word, user_raw, is_retry, pre_difficulty,
                   articles_mandatory, oks)
    IN  IF IsCorrection(is_correction, corrected)
        THEN submit_correction(out.m, df, word_level, artikel_raw, deutsch_raw,
                 english_word, is_retry, pre_difficulty, corrected, writable, oks)
        ELSE [m |-> out.m, df |-> df, response |-> out.response]

\* lines 479-682: a POST with english_word, a correction or an answer
submit_word(m, df, word_level, artikel_raw, deutsch_raw, english_word, user_raw, is_retry, pre_difficulty, articles_mandatory, is_correction, corrected, writable, oks) ==
    IF IsCorrection(is_correction, corrected)
    THEN submit_correction(m, df, word_level, artikel_raw, deutsch_raw, english_word,
             is_retry, pre_difficulty, corrected, writable, oks)
    ELSE LET out == submit_answer(m, df, word_level, artikel_raw, deutsch_raw,
                        english_word, user_raw, is_retry, pre_difficulty,
                        articles_mandatory, oks)
         IN  [m |-> out.m, df |-> df, response |-> out.response]

SubmitWord(t, user_raw, is_retry, pre_difficulty, articles_mandatory, is_correction, corrected, writable, oks) ==
    /\ Waiting
    /\ \E out \in {submit_word(Store, vocab_df, t.level, t.id.artikel, t.id.deutsch,
                    t.id.english, user_raw, is_retry, pre_difficulty,
                    articles_mandatory, is_correction, corrected, writable, oks)} :
        /\ Counts(out.m.data) \subseteq 0..MaxCount
        /\ progress_data' = out.m.data
        /\ disk' = out.m.file
        /\ save_failures' = out.m.fails
        /\ vocab_df' = out.df
        /\ last' = out.response @@ [is_correction |-> is_correction,
                                    corrected |-> corrected]
        /\ UNCHANGED recap_file

\* The response is sent and the server waits for the next request
Respond ==
    /\ last # Idle
    /\ last' = Idle
    /\ UNCHANGED <<vocab_df, progress_data, disk, save_failures, recap_file>>

-----------------------------------------------------------------------------

Levels == level_options(vocab_df) \cup {UnknownLevel}

\* Level selections of the practice page
Selections ==
    {<<l>> : l \in Levels} \cup {<<"A1.1", "A1.2">>}

\* Values of ?limit=
Limits == -1..Len(vocab_df)

Next ==
    \/ \E t \in Targets, is_retry \in BOOLEAN, pre \in {"none", "true", "false"} :
          \E a \in Answers(t.id) :
             SubmitAnswer(t, a.typed, is_retry, pre, a.mandatory, AllSaved)
    \/ \E t \in Targets, difficulty \in BOOLEAN :
          MarkDifficulty(t, difficulty, TRUE)
    \/ \E levels \in Selections, difficult_only \in BOOLEAN,
          pick \in 1..Len(vocab_df) :
          FetchNextWord(levels, difficult_only, pick)
    \/ \E level \in Levels : GetLevelProgress(level)
    \/ \E level \in Levels : ResetLevel(level, TRUE)
    \/ ResetAll(TRUE, TRUE)
    \/ \E level \in Levels, limit \in Limits : GetDifficultWords(level, limit)
    \/ \E level \in Levels : GetLevelStats(level)
    \/ \E level \in Levels : ResetLevelIncorrectCounts(level, TRUE)
    \/ Respond

Spec == Init /\ [][Next]_vars

-----------------------------------------------------------------------------
(* The read requests over every document of a three-word level             *)

QueryVocab ==
    << Row(<<"a">>, <<"B">>, "dog", "A1.1"),
       Row(<<>>, <<"b", "a">>, "go", "A1.1"),
       Row(<<"a">>, <<"A">>, "cat", "A1.1") >>

\* The states a word of the document can be in; `legacy` words were
\* written before incorrect_count existed
WordStates(row, legacy) ==
    LET base == {[artikel |-> row.Artikel, deutsch |-> row.Deutsch,
                  english |-> row.English, status |-> st] :
                    st \in {"notyetanswered", "correct", "incorrect"}}
        counted == IF legacy THEN base
                   ELSE {SetKey(w, "incorrect_count", n) : w \in base, n \in 0..MaxCount}
    IN  counted \cup {SetKey(w, "difficulty", "hard") : w \in counted}

QueryInit ==
    /\ vocab_df = QueryVocab
    /\ \E legacy \in BOOLEAN :
       \E w1 \in WordStates(QueryVocab[1], legacy),
          w2 \in WordStates(QueryVocab[2], FALSE),
          w3 \in WordStates(QueryVocab[3], FALSE) :
          progress_data = [l \in {"A1.1"} |-> <<w1, w2, w3>>]
    /\ disk = File(progress_data)
    /\ save_failures = 0
    /\ recap_file = NoFile
    /\ last = Idle

QueryNext ==
    \/ \E levels \in Selections, difficult_only \in BOOLEAN,
          pick \in 1..Len(vocab_df) :
          FetchNextWord(levels, difficult_only, pick)
    \/ \E level \in Levels : GetLevelProgress(level)
    \/ \E level \in Levels, limit \in Limits : GetDifficultWords(level, limit)
    \/ \E level \in Levels : GetLevelStats(level)
    \/ Respond

QuerySpec == QueryInit /\ [][QueryNext]_vars

-----------------------------------------------------------------------------
(* The recap page, routes/deutsch_recap_python.py: a list of the words of  *)
(* data/progress2.json under the filters of the form.                      *)

NoMax == [given |-> FALSE, value |-> 0]
AtMost(n) == [given |-> TRUE, value |-> n]

\* A filter whose minimum count only lets unmastered words through
RecapKeeps_only_unmastered(word, status_filter, difficulty_filter, min_incorrect, max_incorrect) ==
    /\ (status_filter = "" \/ word.status = status_filter)
    /\ word.status # "correct"
    /\ ~(difficulty_filter = "hard" /\ ~IsHard(word))
    /\ ~(GetCount(word) < min_incorrect)
    /\ ~(max_incorrect.given /\ GetCount(word) > max_incorrect.value)

\* lines 79-99: does the word pass the filters
RecapKeeps(word, status_filter, difficulty_filter, min_incorrect, max_incorrect) ==
    /\ (status_filter = "" \/ word.status = status_filter)
    /\ ~(difficulty_filter = "hard" /\ ~IsHard(word))
    /\ ~(GetCount(word) < min_incorrect)
    /\ ~(max_incorrect.given /\ GetCount(word) > max_incorrect.value)

\* lines 75-99: the words listed, level by level, as positions in the level
filtered_words(data, level_filter, status_filter, difficulty_filter, min_incorrect, max_incorrect) ==
    [level \in {l \in DOMAIN data : level_filter = "" \/ l = level_filter} |->
        SelectSeq(Positions(data[level]),
            LAMBDA i : RecapKeeps(data[level][i], status_filter, difficulty_filter,
                                  min_incorrect, max_incorrect))]

\* POST /deutsch_recap_html without bulk_remove, lines 12-19 and 66-113
RecapFilter(level_filter, status_filter, difficulty_filter, min_incorrect, max_incorrect) ==
    /\ Waiting
    /\ last' = IF ~recap_file.exists THEN [op |-> "recap", result |-> "500"]
               ELSE [op |-> "recap", result |-> "page",
                     level_filter |-> level_filter, status_filter |-> status_filter,
                     difficulty_filter |-> difficulty_filter,
                     min_incorrect |-> min_incorrect, max_incorrect |-> max_incorrect,
                     words |-> filtered_words(recap_file.content, level_filter,
                                   status_filter, difficulty_filter, min_incorrect,
                                   max_incorrect)]
    /\ UNCHANGED <<vocab_df, progress_data, disk, save_failures, recap_file>>

\* GET /deutsch_recap_html, lines 12-19 and 100-113: every word is listed
RecapShowAll ==
    /\ Waiting
    /\ last' = IF ~recap_file.exists THEN [op |-> "recap_all", result |-> "500"]
               ELSE [op |-> "recap_all", result |-> "page",
                     words |-> [level \in DOMAIN recap_file.content |->
                                   Positions(recap_file.content[level])]]
    /\ UNCHANGED <<vocab_df, progress_data, disk, save_failures, recap_file>>

\* lines 50-58: the first word of the level with this deutsch leaves the
\* hard list
Removed(words, word_deutsch) ==
    LET hits == {i \in 1..Len(words) : words[i].deutsch = word_deutsch}
        first == CHOOSE i \in hits : \A j \in hits : i <= j
    IN  IF hits = {} THEN words
        ELSE [words EXCEPT ![first] =
                 SetKey(SetKey(@, "difficulty", "normal"), "incorrect_count", 0)]

\* POST /deutsch_recap_html with bulk_remove and one selected word,
\* lines 31-64 and 75-113; the write of line 61 succeeds
RecapBulkRemove(level, word_deutsch, level_filter, status_filter, difficulty_filter, min_incorrect, max_incorrect) ==
    /\ Waiting
    /\ recap_file.exists
    /\ level \in DOMAIN recap_file.content
    /\ \E data \in {[recap_file.content EXCEPT ![level] = Removed(@, word_deutsch)]} :
          /\ recap_file' = File(data)
          /\ last' = [op |-> "recap_remove", result |-> "page",
                      level_filter |-> level_filter, status_filter |-> status_filter,
                      difficulty_filter |-> difficulty_filter,
                      min_incorrect |-> min_incorrect, max_incorrect |-> max_incorrect,
                      words |-> filtered_words(data, level_filter, status_filter,
                                    difficulty_filter, min_incorrect, max_incorrect)]
    /\ UNCHANGED <<vocab_df, progress_data, disk, save_failures>>

\* Documents of progress2.json: two words in A1.1 and one in A1.2
RecapWord(row, status, count) ==
    [artikel |-> row.Artikel, deutsch |-> row.Deutsch, english |-> row.English,
     status |-> status, incorrect_count |-> count]

RecapInit ==
    /\ vocab_df = InitialVocab
    /\ progress_data = load_progress(NoFile, InitialVocab, TRUE).data
    /\ disk = File(progress_data)
    /\ save_failures = 0
    /\ \E s1 \in {"notyetanswered", "correct", "incorrect"}, s2 \in {"correct", "incorrect"},
          s3 \in {"notyetanswered", "correct"}, c1 \in 0..MaxCount, c2 \in 0..MaxCount,
          c3 \in 0..MaxCount, h1 \in BOOLEAN, h2 \in BOOLEAN :
          LET w1 == RecapWord(QueryVocab[1], s1, c1)
              w2 == RecapWord(QueryVocab[2], s2, c2)
              w3 == RecapWord(InitialVocab[2], s3, c3)
              Hard(w, h) == IF h THEN SetKey(w, "difficulty", "hard") ELSE w
          IN  recap_file = File([l \in {"A1.1", "A1.2"} |->
                                   IF l = "A1.1" THEN <<Hard(w1, h1), Hard(w2, h2)>>
                                   ELSE <<w3>>])
    /\ last = Idle

RecapRequest ==
    \E level_filter \in {"", "A1.1", "A1.2"}, status_filter \in {"", "incorrect"},
       difficulty_filter \in {"", "hard"}, min_incorrect \in -1..MaxCount,
       max_incorrect \in {NoMax, AtMost(1)} :
       \/ RecapFilter(level_filter, status_filter, difficulty_filter, min_incorrect,
                      max_incorrect)
       \/ /\ level_filter = "A1.1" /\ status_filter = "" /\ max_incorrect = NoMax
          /\ RecapBulkRemove("A1.1", <<"B">>, level_filter, status_filter,
                             difficulty_filter, min_incorrect, max_incorrect)

RecapNext ==
    \/ Waiting /\ RecapRequest
    \/ RecapShowAll
    \/ Respond

RecapSpec == RecapInit /\ [][RecapNext]_vars

-----------------------------------------------------------------------------
(* Start of the process over the files it may find, and a save of the      *)
(* document just loaded                                                    *)

Importing == [op |-> "import"]

\* A file in the old format: A1.1 as a list of lists, one of them too short
OldFormatFile ==
    File([l \in {"A1.1"} |-> << [list |-> << <<"a">>, <<"B">>, "dog" >>],
                                [list |-> << <<>>, <<"b">> >>] >>])

\* Files the process may find: none, files of earlier versions, files
\* holding one or both levels of the corpus
StartFiles ==
    {NoFile, LegacyFile, OldFormatFile}
    \cup {File([l \in {"A1.1"} |-> <<w1>>]) : w1 \in WordStates(InitialVocab[1], FALSE)}
    \cup {File([l \in {"A1.1", "A1.2"} |-> IF l = "A1.1" THEN <<w1>> ELSE <<w2>>]) :
             w1 \in WordStates(InitialVocab[1], FALSE),
             w2 \in WordStates(InitialVocab[2], FALSE)}

\* lines 10-25: the module is being imported, progress_data = {}
StartInit ==
    /\ vocab_df = InitialVocab
    /\ progress_data = <<>>
    /\ disk \in StartFiles
    /\ save_failures = 0
    /\ recap_file = NoFile
    /\ last = Importing

\* line 279: load_progress() at import
LoadProgress ==
    /\ last = Importing
    /\ \E m \in {load_progress(disk, vocab_df, TRUE)} :
          /\ progress_data' = m.data
          /\ disk' = m.file
          /\ save_failures' = m.fails
    /\ last' = [op |-> "load", before |-> disk]
    /\ UNCHANGED <<vocab_df, recap_file>>

\* save_progress() on the document as loaded
SaveProgress ==
    /\ last.op = "load"
    /\ \E m \in {save_progress(Store, TRUE)} :
          /\ progress_data' = m.data
          /\ disk' = m.file
          /\ save_failures' = m.fails
    /\ last' = [op |-> "save", before |-> last.before]
    /\ UNCHANGED <<vocab_df, recap_file>>

\* The process is started again on the file it left
Restart ==
    /\ Waiting
    /\ progress_data' = <<>>
    /\ last' = Importing
    /\ UNCHANGED <<vocab_df, disk, save_failures, recap_file>>

LoadNext ==
    \/ LoadProgress
    \/ SaveProgress
    \/ Respond
    \/ Restart

LoadSpec == StartInit /\ [][LoadNext]_vars

-----------------------------------------------------------------------------
(* Corrections, answers and resets over a corpus with two words in a level *)

CorrectionVocab ==
    << Row(<<"a">>, <<"B">>, "dog", "A1.1"),
       Row(<<>>, <<"b", "a">>, "go", "A1.1"),
       Row(<<"a">>, <<"A">>, "cat", "A1.2") >>

CorrectionInit ==
    /\ vocab_df = CorrectionVocab
    /\ \E m \in {load_progress(NoFile, CorrectionVocab, TRUE)} :
          /\ progress_data = m.data
          /\ disk = m.file
          /\ save_failures = m.fails
    /\ recap_file = NoFile
    /\ last = Idle

\* Correction forms: the german word alone, the article alone, the example
\* sentence alone, all the text fields, none
Patches ==
    {Patch(<<"b", "a">>, "", <<>>, ""),
     Patch(<<>>, "", <<"A">>, ""),
     Patch(<<>>, "", <<>>, "s"),
     Patch(<<"b", "a">>, "go", <<>>, ""),
     Patch(<<>>, "", <<>>, "")}

\* The forms are about the words of the first level of the corpus
CorrectionTargets == {t \in Targets : t.level # "A1.2"}

\* A form with is_correction set: whatever the answer typed with it, here
\* the right answer as a first attempt or a wrong one as a retry
CorrectionForm ==
    \E t \in CorrectionTargets, retrying \in BOOLEAN, pre \in {"none", "true"},
       corrected \in Patches, writable \in BOOLEAN :
       SubmitWord(t, IF retrying THEN <<"b", "b">> ELSE t.id.deutsch, retrying, pre,
                  FALSE, TRUE, corrected, writable, AllSaved)

\* A form without is_correction and with a correction field left in it
AnswerForm ==
    \E t \in CorrectionTargets, is_retry \in BOOLEAN, right \in BOOLEAN :
       SubmitWord(t, IF right THEN t.id.deutsch ELSE <<"b", "b">>, is_retry, "none", FALSE, FALSE,
                  Patch(<<"b", "a">>, "", <<>>, ""), TRUE, AllSaved)

CorrectionNext ==
    \/ CorrectionForm
    \/ AnswerForm
    \/ \E level \in Levels : ResetLevel(level, TRUE)
    \/ Respond

CorrectionSpec == CorrectionInit /\ [][CorrectionNext]_vars

-----------------------------------------------------------------------------
(* Two requests served at once.  app.run (app.py, line 261) starts the     *)
(* threaded development server: every request is handled by a thread of   *)
(* its own, and the handlers take no lock.  A handler is cut into steps at *)
(* the places where another thread can run: between the scan that finds    *)
(* the word dict, the write to it and save_progress, and between the       *)
(* statements of initialize_missing_levels.  `last` holds the document at  *)
(* the arrival of the two requests and the position of each thread.        *)

Threads == {1, 2}

ConcLevel == "A1.1"
ConcWord == Ident(FreshLevel(InitialVocab, ConcLevel)[1])

\* The requests: a wrong answer for ConcWord, first attempt or retry, POST
\* /vocab/reset-all, GET /vocab/A1.1/stats
ConcRequests ==
    {[kind |-> "submit", is_retry |-> FALSE], [kind |-> "submit", is_retry |-> TRUE],
     [kind |-> "reset_all", is_retry |-> FALSE], [kind |-> "stats", is_retry |-> FALSE]}

\* The first statement of the handler that touches the document
StartPc(req) ==
    CASE req.kind = "submit" -> IF req.is_retry THEN "increment_find" ELSE "update_find"
      [] req.kind = "reset_all" -> "reset_clear"
      [] OTHER -> "stats_read"

\* The locals of a handler thread: the word dict it holds (`idx`, and `live`
\* while that dict still belongs to progress_data), the count it read, the
\* position of the loops of initialize_missing_levels
Arrived(req) ==
    [req |-> req, pc |-> StartPc(req), idx |-> 0, live |-> FALSE, n |-> 0,
     pos |-> 0, row |-> 0, updated |-> FALSE, response |-> Idle]

\* The documents the requests can arrive at
ConcDocs ==
    {[l \in level_options(InitialVocab) |->
         IF l = ConcLevel THEN <<w>> ELSE FreshLevel(InitialVocab, l)] :
       w \in {x \in WordStates(InitialVocab[1], FALSE) : ~IsHard(x)}}

ConcInit ==
    /\ vocab_df = InitialVocab
    /\ \E doc \in ConcDocs, r1 \in ConcRequests, r2 \in ConcRequests :
          /\ progress_data = doc
          /\ disk = File(doc)
          /\ last = [op |-> "concurrent", before |-> doc,
                     run |-> [t \in Threads |-> Arrived(IF t = 1 THEN r1 ELSE r2)]]
    /\ save_failures = 0
    /\ recap_file = NoFile

Running(t, pc) == last.op = "concurrent" /\ last.run[t].pc = pc

Goto(t, loc) == last' = [last EXCEPT !.run[t] = loc]

\* lines 122-128 and 136-142: `if level not in progress_data:
\* initialize_missing_levels()` and the scan for the word
Found(m) ==
    FindWord(m.data[ConcLevel], ConcWord.artikel, ConcWord.deutsch, ConcWord.english)

\* update_word_status, lines 122-128: the loop reaches the word dict
UpdateFind(t) ==
    /\ Running(t, "update_find")
    /\ \E m \in {EnsureLevel(Store, vocab_df, ConcLevel, TRUE)} :
          /\ progress_data' = m.data
          /\ disk' = m.file
          /\ Goto(t, [last.run[t] EXCEPT
                        !.idx = Found(m), !.live = Found(m) > 0,
                        !.pc = IF Found(m) > 0 THEN "update_write" ELSE "increment_find"])
    /\ UNCHANGED <<vocab_df, save_failures, recap_file>>

\* line 129: word['status'] = new_status, on the dict the thread holds
UpdateWrite(t) ==
    /\ Running(t, "update_write")
    /\ progress_data' =
          IF last.run[t].live
          THEN [progress_data EXCEPT ![ConcLevel][last.run[t].idx] =
                   SetKey(@, "status", "incorrect")]
          ELSE progress_data
    /\ Goto(t, [last.run[t] EXCEPT !.pc = "update_save"])
    /\ UNCHANGED <<vocab_df, disk, save_failures, recap_file>>

\* lines 130-131: save_progress() dumps the global as it is now, and the
\* handler goes on to increment_incorrect_count (line 636)
UpdateSave(t) ==
    /\ Running(t, "update_save")
    /\ disk' = save_progress(Store, TRUE).file
    /\ Goto(t, [last.run[t] EXCEPT !.pc = "increment_find"])
    /\ UNCHANGED <<vocab_df, progress_data, save_failures, recap_file>>

\* increment_incorrect_count, lines 136-145: the loop reaches the word dict,
\* fills in a missing incorrect_count and reads the count
IncrementFind(t) ==
    /\ Running(t, "increment_find")
    /\ \E m \in {EnsureLevel(Store, vocab_df, ConcLevel, TRUE)} :
          LET i == Found(m)
              w == m.data[ConcLevel][i]
          IN  /\ progress_data' =
                    IF i > 0
                    THEN [m.data EXCEPT ![ConcLevel][i] =
                             SetKey(w, "incorrect_count", GetCount(w))]
                    ELSE m.data
              /\ disk' = m.file
              /\ Goto(t, IF i > 0
                         THEN [last.run[t] EXCEPT !.idx = i, !.live = TRUE,
                                  !.n = GetCount(w), !.pc = "increment_write"]
                         ELSE [last.run[t] EXCEPT !.pc = "done",
                                  !.response = [op |-> "submit", count |-> 0]])
    /\ UNCHANGED <<vocab_df, save_failures, recap_file>>

\* line 146: the store of word['incorrect_count'] += 1
IncrementWrite(t) ==
    /\ Running(t, "increment_write")
    /\ progress_data' =
          IF last.run[t].live
          THEN [progress_data EXCEPT ![ConcLevel][last.run[t].idx] =
                   SetKey(@, "incorrect_count", last.run[t].n + 1)]
          ELSE progress_data
    /\ Goto(t, [last.run[t] EXCEPT !.pc = "increment_save"])
    /\ UNCHANGED <<vocab_df, disk, save_failures, recap_file>>

\* lines 147-148: save_progress() and the return of the count
IncrementSave(t) ==
    /\ Running(t, "increment_save")
    /\ disk' = save_progress(Store, TRUE).file
    /\ Goto(t, [last.run[t] EXCEPT !.pc = "done",
                   !.response = [op |-> "submit", count |-> last.run[t].n + 1]])
    /\ UNCHANGED <<vocab_df, progress_data, save_failures, recap_file>>

\* vocab_df['Level'].dropna().unique(): the levels in order of appearance
LevelOrder(df) ==
    LET firsts == SelectSeq(Positions(df),
                      LAMBDA i : \A j \in 1..(i - 1) : df[j].Level # df[i].Level)
    IN  [k \in 1..Len(firsts) |-> df[firsts[k]].Level]

\* line 857: progress_data = {}; the dicts other threads hold are no longer
\* part of the document
ResetClear(t) ==
    /\ Running(t, "reset_clear")
    /\ progress_data' = <<>>
    /\ last' = [last EXCEPT !.run =
                  [u \in Threads |->
                      IF u = t
                      THEN [last.run[u] EXCEPT !.pc = "reset_level", !.pos = 1]
                      ELSE [last.run[u] EXCEPT !.live = FALSE]]]
    /\ UNCHANGED <<vocab_df, disk, save_failures, recap_file>>

\* lines 48-50, 67-88: the head of the loop over level_options; a level that
\* is missing gets its empty list, a level that is there is converted when
\* it is in the old format; after the last level, `if updated`
ResetLevelHead(t) ==
    /\ Running(t, "reset_level")
    /\ LET loc == last.run[t]
           order == LevelOrder(vocab_df)
           level == order[loc.pos]
       IN  IF loc.pos > Len(order)
           THEN /\ Goto(t, [loc EXCEPT !.pc = IF loc.updated THEN "reset_save_levels"
                                              ELSE "reset_save"])
                /\ UNCHANGED progress_data
           ELSE IF level \notin DOMAIN progress_data
           THEN /\ progress_data' = [l \in DOMAIN progress_data \cup {level} |->
                                        IF l = level THEN <<>> ELSE progress_data[l]]
                /\ Goto(t, [loc EXCEPT !.pc = "reset_append", !.row = 1,
                                       !.updated = TRUE])
           ELSE /\ progress_data' =
                      IF IsOldFormat(progress_data[level])
                      THEN [progress_data EXCEPT ![level] = Converted(@)]
                      ELSE progress_data
                /\ Goto(t, [loc EXCEPT !.pos = @ + 1,
                               !.updated = @ \/ IsOldFormat(progress_data[level])])
    /\ UNCHANGED <<vocab_df, disk, save_failures, recap_file>>

\* lines 53-65: progress_data[level].append(word_entry) for the next row of
\* the level; KeyError when the level is gone, which line 866 catches
ResetAppend(t) ==
    /\ Running(t, "reset_append")
    /\ LET loc == last.run[t]
           level == LevelOrder(vocab_df)[loc.pos]
           entries == FreshLevel(vocab_df, level)
       IN  IF level \notin DOMAIN progress_data
           THEN /\ Goto(t, [loc EXCEPT !.pc = "done",
                               !.response = [op |-> "reset_all", result |-> "error"]])
                /\ UNCHANGED progress_data
           ELSE /\ progress_data' =
                      [progress_data EXCEPT ![level] = Append(@, entries[loc.row])]
                /\ Goto(t, IF loc.row < Len(entries)
                           THEN [loc EXCEPT !.row = @ + 1]
                           ELSE [loc EXCEPT !.pc = "reset_level", !.pos = @ + 1])
    /\ UNCHANGED <<vocab_df, disk, save_failures, recap_file>>

\* lines 87-88: the save_progress() of initialize_missing_levels
ResetSaveLevels(t) ==
    /\ Running(t, "reset_save_levels")
    /\ disk' = save_progress(Store, TRUE).file
    /\ Goto(t, [last.run[t] EXCEPT !.pc = "reset_save"])
    /\ UNCHANGED <<vocab_df, progress_data, save_failures, recap_file>>

\* lines 859-864: the save_progress() of reset_all_progress and its response
ResetSave(t) ==
    /\ Running(t, "reset_save")
    /\ disk' = save_progress(Store, TRUE).file
    /\ Goto(t, [last.run[t] EXCEPT !.pc = "done",
                   !.response = [op |-> "reset_all", result |-> "success"]])
    /\ UNCHANGED <<vocab_df, progress_data, save_failures, recap_file>>

\* line 896: stats = get_completion_stats(level)
StatsRead(t) ==
    /\ Running(t, "stats_read")
    /\ \E c \in {get_completion_stats(Store, vocab_df, ConcLevel, TRUE)} :
          /\ progress_data' = c.m.data
          /\ disk' = c.m.file
          /\ Goto(t, [last.run[t] EXCEPT !.pc = "stats_top",
                         !.response = [stats |-> c.ret]])
    /\ UNCHANGED <<vocab_df, save_failures, recap_file>>

\* lines 897-904: get_most_difficult_words(level, 5) and the response
StatsTop(t) ==
    /\ Running(t, "stats_top")
    /\ \E d \in {get_most_difficult_words(Store, vocab_df, ConcLevel, TopLimit, TRUE)} :
          /\ progress_data' = d.m.data
          /\ disk' = d.m.file
          /\ Goto(t, [last.run[t] EXCEPT !.pc = "done",
                         !.response = [op |-> "stats", level |-> ConcLevel,
                                       result |-> "success",
                                       stats |-> last.run[t].response.stats,
                                       words |-> d.ret]])
    /\ UNCHANGED <<vocab_df, save_failures, recap_file>>

ConcNext ==
    \E t \in Threads :
        \/ UpdateFind(t) \/ UpdateWrite(t) \/ UpdateSave(t)
        \/ IncrementFind(t) \/ IncrementWrite(t) \/ IncrementSave(t)
        \/ ResetClear(t) \/ ResetLevelHead(t) \/ ResetAppend(t)
        \/ ResetSaveLevels(t) \/ ResetSave(t)
        \/ StatsRead(t) \/ StatsTop(t)

ConcSpec == ConcInit /\ [][ConcNext]_vars

\* The handler of a request run alone on store m
Alone(req, m) ==
    CASE req.kind = "submit" ->
           submit_answer(m, vocab_df, ConcLevel, ConcWord.artikel, ConcWord.deutsch,
               ConcWord.english, <<"b", "b">>, req.is_retry, "none", FALSE, AllSaved)
      [] req.kind = "reset_all" -> reset_all_progress(m, vocab_df, TRUE, TRUE)
      [] OTHER -> get_level_stats(m, vocab_df, ConcLevel)

\* The store at the arrival of the two requests
Before == [data |-> last.before, file |-> File(last.before), fails |-> 0]

\* The other thread
Other(t) == CHOOSE u \in Threads : u # t

\* What the request of t leaves and answers when it runs first, and when it
\* runs after the request of the other thread
RunFirst(t) == Alone(last.run[t].req, Before)
RunSecond(t) == Alone(last.run[t].req, RunFirst(Other(t)).m)

-----------------------------------------------------------------------------
(* The records of a level under every operation that writes to them or     *)
(* sorts them: answers, difficulty marks, corrections, the resets of a     *)
(* level and of its counts, and the list of the most difficult words, over *)
(* a level of two words.                                                   *)

\* The corrections sent: a new german form, and a new german form and gloss
\* that are those of the second word
RecordPatches == {Patch(<<"b", "a">>, "", <<>>, ""), Patch(<<"b", "a">>, "go", <<>>, "")}

RecordAnswer ==
    \E t \in CorrectionTargets, is_retry \in BOOLEAN, right \in BOOLEAN :
       SubmitWord(t, IF right THEN t.id.deutsch ELSE <<"b", "b">>, is_retry, "none",
                  FALSE, FALSE, Patch(<<>>, "", <<>>, ""), TRUE, AllSaved)

RecordCorrection ==
    \E t \in CorrectionTargets, corrected \in RecordPatches :
       SubmitWord(t, t.id.deutsch, FALSE, "none", FALSE, TRUE, corrected, TRUE, AllSaved)

\* The server is started again: load_progress() on the file as it is
Reload ==
    /\ Waiting
    /\ \E m \in {load_progress(disk, vocab_df, TRUE)} :
          Serve(Outcome(m, [op |-> "load", level |-> "", result |-> "success"]))

RecordsNext ==
    \/ RecordAnswer
    \/ Reload
    \/ RecordCorrection
    \/ \E t \in CorrectionTargets, difficulty \in BOOLEAN : MarkDifficulty(t, difficulty, TRUE)
    \/ \E level \in Levels : ResetLevel(level, TRUE)
    \/ \E level \in Levels : ResetLevelIncorrectCounts(level, TRUE)
    \/ \E limit \in Limits : GetDifficultWords(DefaultLevel, limit)
    \/ Respond

RecordsSpec == CorrectionInit /\ [][RecordsNext]_vars

-----------------------------------------------------------------------------
(* The judge over every short answer                                       *)

\* lines 484-486 and 572-590 alone: the verdict on one submitted form
Judge(user_raw, deutsch_raw, artikel_raw, articles_mandatory) ==
    /\ Waiting
    /\ last' = [op |-> "judge",
                user_input |-> Strip(user_raw),
                correct_deutsch |-> Strip(deutsch_raw),
                artikel |-> Strip(artikel_raw),
                articles_mandatory |-> articles_mandatory,
                correct |-> is_correct(Strip(user_raw), Strip(deutsch_raw),
                                       Strip(artikel_raw), articles_mandatory)]
    /\ UNCHANGED <<vocab_df, progress_data, disk, save_failures, recap_file>>

\* correct_deutsch and artikel fields of the form
JudgedWords == {<<"B">>, <<"b", "a">>, <<"B", " ">>}
JudgedArticles == {<<>>, <<"a">>, <<"A">>, <<" ">>}

JudgeRequest ==
    /\ Waiting
    /\ \E user_raw \in TextsUpTo(MaxInputLen), deutsch_raw \in JudgedWords,
          artikel_raw \in JudgedArticles, articles_mandatory \in BOOLEAN :
          Judge(user_raw, deutsch_raw, artikel_raw, articles_mandatory)

JudgeNext == JudgeRequest \/ Respond

JudgeSpec == Init /\ [][JudgeNext]_vars

-----------------------------------------------------------------------------
(* Properties *)

\* The word an answer submission addresses, as the request finds it and as
\* the request leaves it
WordBefore == progress_data[last'.level][last'.idx]
WordAfter == progress_data'[last'.level][last'.idx]

\* The step serves an answer submission for a word of the document
Submitted(is_retry, correct) ==
    /\ last'.op = "submit"
    /\ last'.idx > 0
    /\ last'.is_retry = is_retry
    /\ last'.correct = correct

\* The word the last answer submission addressed
LastWord == progress_data[last.level][last.idx]

LastSubmitted(is_retry, correct) ==
    /\ last.op = "submit"
    /\ last.idx > 0
    /\ last.is_retry = is_retry
    /\ last.correct = correct

\* C1: a first-attempt submission judged correct leaves the addressed word
\* with status correct and with the incorrect_count it had
C1_FirstAttemptCorrect ==
    [][Submitted(FALSE, TRUE) =>
         /\ WordAfter.status = "correct"
         /\ GetCount(WordAfter) = GetCount(WordBefore)]_vars

\* A first attempt was judged correct on a word that had been missed before
C1_Witness ==
    /\ LastSubmitted(FALSE, TRUE)
    /\ LastWord.status = "correct"
    /\ GetCount(LastWord) > 0

\* C2: a first-attempt submission judged incorrect leaves the addressed word
\* with status incorrect and with its incorrect_count raised by exactly 1
C2_FirstAttemptIncorrect ==
    [][Submitted(FALSE, FALSE) =>
         /\ WordAfter.status = "incorrect"
         /\ GetCount(WordAfter) = GetCount(WordBefore) + 1]_vars

\* A first attempt was judged incorrect on a word already missed once
C2_Witness ==
    /\ LastSubmitted(FALSE, FALSE)
    /\ LastWord.status = "incorrect"
    /\ GetCount(LastWord) = 2

\* C3: a retry never lowers the addressed word's incorrect_count, and a
\* retry judged correct changes neither its status nor its incorrect_count
C3_Retry ==
    [][\A correct \in BOOLEAN :
         Submitted(TRUE, correct) =>
            /\ GetCount(WordAfter) >= GetCount(WordBefore)
            /\ correct => /\ WordAfter.status = WordBefore.status
                          /\ GetCount(WordAfter) = GetCount(WordBefore)]_vars

\* A retry was judged correct on a word that stays incorrect with its count
C3_Witness ==
    /\ LastSubmitted(TRUE, TRUE)
    /\ LastWord.status = "incorrect"
    /\ GetCount(LastWord) > 0

\* C4 as stated: a retry judged incorrect raises the addressed word's
\* incorrect_count by exactly 1 and leaves the word with status incorrect,
\* whatever its status was
C4_AsStated ==
    [][Submitted(TRUE, FALSE) =>
         /\ GetCount(WordAfter) = GetCount(WordBefore) + 1
         /\ WordAfter.status = "incorrect"]_vars

\* C4: a retry judged incorrect raises the addressed word's incorrect_count
\* by exactly 1 and leaves its status as it was: incorrect only if the word
\* was already incorrect
C4_RetryIncorrect ==
    [][Submitted(TRUE, FALSE) =>
         /\ GetCount(WordAfter) = GetCount(WordBefore) + 1
         /\ WordAfter.status = WordBefore.status]_vars

\* A retry was judged incorrect and counted on a word that stays correct
C4_Witness ==
    /\ LastSubmitted(TRUE, FALSE)
    /\ LastWord.status = "correct"
    /\ GetCount(LastWord) > 0

\* Status changes of the words a step keeps
StatusMoves ==
    UNION {{[level |-> l, idx |-> i, from |-> progress_data[l][i].status,
             to |-> progress_data'[l][i].status] :
               i \in 1..Len(progress_data[l])} :
           l \in DOMAIN progress_data \cap DOMAIN progress_data'}

\* C5 as stated: under an answer submission a status only moves from
\* notyetanswered to correct or incorrect, or from incorrect to correct
C5_AsStated ==
    [][last'.op = "submit" =>
         \A mv \in StatusMoves :
            \/ mv.from = mv.to
            \/ mv.from = "notyetanswered" /\ mv.to \in {"correct", "incorrect"}
            \/ mv.from = "incorrect" /\ mv.to = "correct"]_vars

\* C5: an answer submission changes the status of the addressed word only,
\* on a first attempt only, to correct when the answer is judged correct and
\* to incorrect when it is not, whatever the status was (a correct word
\* becomes incorrect); a word returns to notyetanswered under the reset
\* operations only
C5_StatusMoves ==
    [][\A mv \in StatusMoves :
         mv.from # mv.to =>
            /\ last'.op = "submit" =>
                  /\ ~last'.is_retry
                  /\ mv.level = last'.level /\ mv.idx = last'.idx
                  /\ mv.to = IF last'.correct THEN "correct" ELSE "incorrect"
            /\ mv.to = "notyetanswered" => last'.op \in {"reset_level", "reset_all"}]_vars

\* A first attempt was judged correct while a word of another level is
\* incorrect
C5_Witness ==
    /\ LastSubmitted(FALSE, TRUE)
    /\ LastWord.status = "correct"
    /\ \E l \in DOMAIN progress_data \ {last.level} :
          \E i \in 1..Len(progress_data[l]) : progress_data[l][i].status = "incorrect"

\* The forms the answer may take, all lowercased and trimmed
AcceptedForms(answer, article, articles_mandatory) ==
    IF articles_mandatory /\ article # <<>>
    THEN {article \o SP \o answer, answer \o SP \o article}
    ELSE {answer, article \o SP \o answer, answer \o SP \o article}

\* C6: for a word with an expected answer, the input is judged correct iff,
\* lowercased and trimmed, it is one of the two article forms when articles
\* are mandatory and the word has an article, and otherwise iff it is the
\* bare answer or one of the two article forms
C6_Judge ==
    last.op = "judge" =>
        (last.correct <=>
            Strip(Lower(last.user_input)) \in
                AcceptedForms(Strip(Lower(last.correct_deutsch)),
                              Strip(Lower(last.artikel)), last.articles_mandatory))

\* The bare answer was rejected for a word with an article under mandatory
\* articles
C6_Witness ==
    /\ last.op = "judge"
    /\ last.articles_mandatory
    /\ last.artikel # <<>>
    /\ Lower(last.user_input) = Lower(last.correct_deutsch)
    /\ ~last.correct

NoneDue(words) ==
    \A i \in 1..Len(words) : words[i].status \notin {"notyetanswered", "incorrect"}

\* C7: in every state and for every level of the document, the completed
\* flag of the level's statistics is true iff no word of the level is
\* notyetanswered or incorrect; so is the flag a statistics request reports
C7_Completed ==
    /\ \A level \in DOMAIN progress_data :
          get_completion_stats(Store, vocab_df, level, TRUE).ret.completed
              <=> NoneDue(progress_data[level])
    /\ (last.op = "stats" /\ last.result = "success") =>
          (last.stats.completed <=> NoneDue(progress_data[last.level]))

\* Statistics were reported for a level with an incorrect word and no
\* unanswered one
C7_Witness ==
    /\ last.op = "stats"
    /\ last.result = "success"
    /\ ~last.stats.completed
    /\ last.stats.not_answered = 0
    /\ last.stats.incorrect > 0

Range(seq) == {seq[k] : k \in 1..Len(seq)}

\* The positions of a level the recap page lists
Listed(level) == IF level \in DOMAIN last.words THEN Range(last.words[level]) ELSE {}

\* The recap page answered a request whose only filters are the level and
\* a minimum incorrect count above 0
MinimumOnly ==
    /\ last.op \in {"recap", "recap_remove"}
    /\ last.result = "page"
    /\ last.min_incorrect > 0
    /\ last.status_filter = ""
    /\ last.difficulty_filter = ""
    /\ ~last.max_incorrect.given

Due(levels, difficult_only) ==
    UNION {{[level |-> l, idx |-> i] :
               i \in {j \in 1..Len(progress_data[l]) :
                        /\ progress_data[l][j].status \in {"notyetanswered", "incorrect"}
                        /\ difficult_only => IsHard(progress_data[l][j])}} :
           l \in Range(levels)}

\* C9: the pool of a practice request is exactly the words of the requested
\* levels that are notyetanswered or incorrect, restricted to the words
\* marked hard when difficult_only is set; no correct word is in the pool
C9_Pool ==
    (last.op = "fetch" /\ last.result # "exception") =>
        /\ Range(last.pool) = Due(last.levels, last.difficult_only)
        /\ Len(last.pool) = Cardinality(Range(last.pool))
        /\ \A w \in Range(last.pool) : progress_data[w.level][w.idx].status # "correct"

\* A practice request over two levels found one word due and the other
\* level's word correct
C9_Witness ==
    /\ last.op = "fetch"
    /\ Len(last.levels) = 2
    /\ Len(last.pool) = 1
    /\ progress_data[last.pool[1].level][last.pool[1].idx].status = "incorrect"
    /\ \E l \in Range(last.levels) :
          \E i \in 1..Len(progress_data[l]) : progress_data[l][i].status = "correct"

\* Position i comes before position j in the ranking by count: a larger
\* count first, the original order among equal counts
Outranks(words, i, j) ==
    \/ GetCount(words[i]) > GetCount(words[j])
    \/ GetCount(words[i]) = GetCount(words[j]) /\ i < j

\* C10: for a limit of 0 or more, the most difficult words of a level are
\* the words with incorrect_count above 0, by descending incorrect_count,
\* words of equal count in their original order, cut to the first `limit`;
\* asking again on the unchanged document gives the same sequence
C10_MostDifficult ==
    (last.op = "difficult_words" /\ last.result = "success" /\ last.limit >= 0) =>
        LET words == progress_data[last.level]
            top == last.words
            errors == {i \in 1..Len(words) : GetCount(words[i]) > 0}
        IN  /\ Range(top) \subseteq errors
            /\ \A j, k \in 1..Len(top) : j < k => Outranks(words, top[j], top[k])
            /\ \A i \in errors \ Range(top) :
                  \A k \in 1..Len(top) : Outranks(words, top[k], i)
            /\ Len(top) = IF Cardinality(errors) < last.limit
                          THEN Cardinality(errors) ELSE last.limit
            /\ get_most_difficult_words(Store, vocab_df, last.level, last.limit,
                                        TRUE).ret = top

\* Three words of equal count above 0 were cut to the first two
C10_Witness ==
    /\ last.op = "difficult_words"
    /\ last.limit = 2
    /\ last.words = <<1, 2>>
    /\ Len(progress_data[last.level]) = 3
    /\ \A i \in 1..3 : GetCount(progress_data[last.level][i]) = 1

\* The store after a hard mark for target t, every write succeeding
MarkedHard(m, t) ==
    mark_difficulty(m, vocab_df, t.level, t.id.artikel, t.id.deutsch, t.id.english,
                    TRUE, TRUE).m

\* C11: marking a word hard twice in a row leaves progress_data and the
\* file as marking it once does, for every word and level a form can name
C11_MarkIdempotent ==
    \A t \in Targets :
        LET once == MarkedHard(Store, t)
            twice == MarkedHard(once, t)
        IN  /\ twice.data = once.data
            /\ twice.file = once.file

\* A word was marked hard and the mark is in memory and in the file
C11_Witness ==
    /\ last.op = "mark_difficulty"
    /\ last.difficulty
    /\ last.result = "difficulty_updated"
    /\ IsHard(progress_data[last.level][last.idx])
    /\ disk = File(progress_data)

\* The levels of the file before the load that the load leaves as they are
Current(old) ==
    {l \in DOMAIN old : ~(l \in level_options(vocab_df) /\ IsOldFormat(old[l]))}

\* C12 as stated: a load followed by a save leaves a file with the levels,
\* records and field values of the file before the load
C12_AsStated ==
    (last.op = "save" /\ last.before.exists) =>
        /\ disk.exists
        /\ disk.content = last.before.content

\* C12: a load followed by a save leaves every level of the file that is in
\* the current format with the same records and field values; it adds each
\* level of the corpus the file lacks, every word notyetanswered with count
\* 0, and rewrites a level kept in the old list format; so a file holding
\* every level of the corpus in the current format is reproduced as it was
C12_RoundTrip ==
    (last.op = "save" /\ last.before.exists) =>
        LET old == last.before.content
            new == disk.content
        IN  /\ disk.exists
            /\ DOMAIN new = DOMAIN old \cup level_options(vocab_df)
            /\ \A l \in Current(old) : new[l] = old[l]
            /\ \A l \in DOMAIN new \ Current(old) :
                  /\ Len(new[l]) <= Len(LevelVocab(vocab_df, l))
                  /\ \A i \in 1..Len(new[l]) :
                        /\ new[l][i].status = "notyetanswered"
                        /\ new[l][i].incorrect_count = 0
            /\ (level_options(vocab_df) \subseteq Current(old)) => new = old

\* A file holding one level of the corpus, its word incorrect and hard, was
\* loaded and saved
C12_Witness ==
    /\ last.op = "save"
    /\ last.before.exists
    /\ DOMAIN last.before.content = {"A1.1"}
    /\ DOMAIN disk.content = {"A1.1", "A1.2"}
    /\ disk.content["A1.1"][1].status = "incorrect"
    /\ IsHard(disk.content["A1.1"][1])

\* The step serves a correction for a word of the document
Corrected == last'.op = "correction" /\ last'.idx > 0

\* The word has the same difficulty mark, or none, before and after
SameDifficulty(before, after) ==
    /\ HasKey(before, "difficulty") = HasKey(after, "difficulty")
    /\ IsHard(before) = IsHard(after)

C14_AsStated ==
    [][(Corrected /\ last'.update_success /\ Strip(last'.corrected.artikel) = <<>>)
          => WordAfter.artikel = WordBefore.artikel]_vars

\* C15: a form with is_correction and a correction field is answered as a
\* correction, not scored, and leaves the status and the incorrect_count of
\* every word as they were, whatever answer and retry flag it carries
C15_CorrectionOnly ==
    [][(last'.op \in {"submit", "correction"}
        /\ IsCorrection(last'.is_correction, last'.corrected)) =>
          /\ last'.op = "correction"
          /\ DOMAIN progress_data' = DOMAIN progress_data
          /\ \A l \in DOMAIN progress_data :
                /\ Len(progress_data'[l]) = Len(progress_data[l])
                /\ \A i \in 1..Len(progress_data[l]) :
                      /\ progress_data'[l][i].status = progress_data[l][i].status
                      /\ GetCount(progress_data'[l][i]) = GetCount(progress_data[l][i])]_vars

\* A correction form took effect on a word that is still unanswered beside
\* a word that is incorrect
C15_Witness ==
    /\ last.op = "correction"
    /\ last.idx > 0
    /\ last.update_success
    /\ LastWord.status = "notyetanswered"
    /\ \E i \in 1..Len(progress_data[last.level]) :
          /\ progress_data[last.level][i].status = "incorrect"
          /\ GetCount(progress_data[last.level][i]) > 0

\* The identity of a word of the document
Identity(w) == <<w.artikel, w.deutsch, w.english>>

\* C19 as stated: no two records of a level of the document have the same
\* (artikel, deutsch, english), corrections included
C19_AsStated ==
    \A l \in DOMAIN progress_data :
        \A i, j \in 1..Len(progress_data[l]) :
            Identity(progress_data[l][i]) = Identity(progress_data[l][j]) => i = j

\* The step serves a reset of a level the document has
ResetOf(level) ==
    /\ last'.op = "reset_level"
    /\ last'.level = level
    /\ level \in DOMAIN progress_data

\* C20: a reset of a level leaves every word of it notyetanswered with
\* incorrect_count 0, with the difficulty and the text fields it had, and
\* leaves every other level as it was
C20_ResetLevel ==
    [][\A level \in Levels : ResetOf(level) =>
          /\ DOMAIN progress_data' = DOMAIN progress_data
          /\ Len(progress_data'[level]) = Len(progress_data[level])
          /\ \A i \in 1..Len(progress_data[level]) :
                LET before == progress_data[level][i]
                    after == progress_data'[level][i]
                IN  /\ after.status = "notyetanswered"
                    /\ HasKey(after, "incorrect_count")
                    /\ after.incorrect_count = 0
                    /\ SameDifficulty(before, after)
                    /\ Identity(after) = Identity(before)
          /\ \A l \in DOMAIN progress_data \ {level} :
                progress_data'[l] = progress_data[l]]_vars

\* A level was reset whose word is marked hard, while the word of the other
\* level is incorrect and counted
C20_Witness ==
    /\ last.op = "reset_level"
    /\ last.level = "A1.1"
    /\ progress_data["A1.1"][1].status = "notyetanswered"
    /\ GetCount(progress_data["A1.1"][1]) = 0
    /\ IsHard(progress_data["A1.1"][1])
    /\ progress_data["A1.2"][1].status = "incorrect"
    /\ GetCount(progress_data["A1.2"][1]) > 0

\* C16 as stated: when an operation that changed the in-memory document has
\* returned and no save has failed, the persisted document equals the
\* in-memory document
C16_AsStated ==
    [][(last' # Idle /\ progress_data' # progress_data /\ save_failures' = 0)
          => disk' = File(progress_data')]_vars

\* Both requests have been answered
AllDone == last.op = "concurrent" /\ \A t \in Threads : last.run[t].pc = "done"

\* C17 as stated: when two requests have been served at once, the document
\* is the one that serving them one after the other, in one of the two
\* orders, leaves; two wrong answers for a word raise its incorrect_count
\* by 2
C17_AsStated ==
    AllDone => \E t \in Threads : progress_data = RunSecond(t).m.data

\* C18 as stated: the statistics a reader is answered with are those of the
\* document before or after the request served at the same time, never of
\* a document in between
C18_AsStated ==
    \A t \in Threads :
        (last.op = "concurrent" /\ last.run[t].pc = "done"
            /\ last.run[t].req.kind = "stats")
        => last.run[t].response.stats \in {RunFirst(t).response.stats,
                                            RunSecond(t).response.stats}

\* A request served while the other has not started leaves what its handler
\* leaves when run alone
OneAtATime ==
    \A t \in Threads :
        (last.op = "concurrent" /\ last.run[t].pc = "done"
            /\ last.run[Other(t)] = Arrived(last.run[Other(t)].req))
        => /\ progress_data = RunFirst(t).m.data
           /\ disk = RunFirst(t).m.file
           /\ (last.run[t].req.kind = "stats"
                  => last.run[t].response = RunFirst(t).response)

\* The document that a reset of every level of the store leaves
ResetEveryLevel ==
    [l \in DOMAIN progress_data |->
        reset_level_progress(Store, vocab_df, l, TRUE).m.data[l]]

\* The records of a document without the keys that only requests add
Plain(doc) ==
    [l \in DOMAIN doc |->
        [i \in 1..Len(doc[l]) |->
            [k \in DOMAIN doc[l][i] \ {"difficulty", "level"} |-> doc[l][i][k]]]]

\* C21 as stated: reset-all leaves the document that a reset of every level
\* leaves, with the difficulty flag of each word preserved
C21_AsStated ==
    [][last'.op = "reset_all" =>
          /\ DOMAIN progress_data' = DOMAIN progress_data
          /\ \A l \in DOMAIN progress_data :
                /\ Len(progress_data'[l]) = Len(progress_data[l])
                /\ \A i \in 1..Len(progress_data[l]) :
                      /\ progress_data'[l][i].status = ResetEveryLevel[l][i].status
                      /\ GetCount(progress_data'[l][i]) = GetCount(ResetEveryLevel[l][i])
                      /\ Identity(progress_data'[l][i]) = Identity(ResetEveryLevel[l][i])
                      /\ SameDifficulty(ResetEveryLevel[l][i], progress_data'[l][i])]_vars

\* C21: reset-all leaves one fresh record per row of the vocabulary, level
\* by level in row order; that is the document a reset of every level
\* leaves, without the difficulty flags
C21_ResetAll ==
    [][last'.op = "reset_all" =>
          /\ progress_data' = [l \in level_options(vocab_df) |-> FreshLevel(vocab_df, l)]
          /\ progress_data' = Plain(ResetEveryLevel)
          /\ disk' = File(progress_data')]_vars

\* A reset-all has been served and every word is fresh, without flag
C21_Witness ==
    /\ last.op = "reset_all"
    /\ \A l \in DOMAIN progress_data : \A i \in 1..Len(progress_data[l]) :
          /\ progress_data[l][i].status = "notyetanswered"
          /\ progress_data[l][i].incorrect_count = 0
          /\ ~HasKey(progress_data[l][i], "difficulty")
    /\ disk = File(progress_data)

\* The (level, identity) pairs that no record of the document matches
Misses ==
    {t \in Targets :
        Addressed(progress_data, t.level, t.id.artikel, t.id.deutsch, t.id.english) = 0}

\* The helper returned its miss value and left the store as it was
NoOp(r) ==
    /\ ~r.raised
    /\ r.ret = 0
    /\ r.m.data = progress_data
    /\ r.m.file = disk

\* C22 as stated: when the level is absent or no record matches, each of
\* update_word_status, mark_word_difficulty and increment_incorrect_count
\* returns its miss value, does not raise, and leaves the in-memory and the
\* persisted document unchanged
C22_AsStated ==
    \A t \in Misses :
        /\ NoOp(update_word_status(Store, vocab_df, t.level, t.id.artikel,
                    t.id.deutsch, t.id.english, "correct", TRUE))
        /\ NoOp(mark_word_difficulty(Store, vocab_df, t.level, t.id.artikel,
                    t.id.deutsch, t.id.english, TRUE, TRUE))
        /\ NoOp(increment_incorrect_count(Store, vocab_df, t.level, t.id.artikel,
                    t.id.deutsch, t.id.english, TRUE))

\* The page served when the only level asked for is one the store lacks
AskedUnknown(difficult_only) ==
    fetch_next_word(Store, vocab_df, <<UnknownLevel>>, difficult_only, 1).response

\* C23 as stated: asked for a level that the store does not have, the
\* selector does not raise and the page is an explicit failure, neither a
\* word nor the completion of another level
C23_AsStated ==
    UnknownLevel \notin DOMAIN progress_data =>
        \A difficult_only \in BOOLEAN :
            /\ ~get_words_to_practice(Store, vocab_df, UnknownLevel, difficult_only,
                    TRUE).raised
            /\ AskedUnknown(difficult_only).result \notin {"word", "completed", "exception"}
            /\ \A k \in 1..Len(AskedUnknown(difficult_only).pool) :
                  AskedUnknown(difficult_only).pool[k].level = UnknownLevel

\* The (level, identity) pairs that a record of the document matches
Hits == Targets \ Misses

\* No save of the request succeeds
NoneSaved == [k \in 1..3 |-> FALSE]

\* update_word_status on the word of t when its save succeeds or fails
Updated(t, ok) ==
    update_word_status(Store, vocab_df, t.level, t.id.artikel, t.id.deutsch,
        t.id.english, "incorrect", ok)

\* The first wrong answer for the word of t when its saves succeed or fail
Answered(t, oks) ==
    submit_answer(Store, vocab_df, t.level, t.id.artikel, t.id.deutsch,
        t.id.english, <<"b", "b">>, FALSE, "none", FALSE, oks)

\* A failing save does not raise, leaves the file alone and leaves in memory
\* the change that a successful save leaves
FailsSoft(t) ==
    /\ ~Updated(t, FALSE).raised
    /\ Updated(t, FALSE).m.data = Updated(t, TRUE).m.data
    /\ Updated(t, FALSE).m.file = disk
    /\ Updated(t, FALSE).m.fails = save_failures + 1
    /\ Answered(t, NoneSaved).m.data = Answered(t, AllSaved).m.data
    /\ Answered(t, NoneSaved).response.result # "exception"

\* C24 as stated: a failing save does not raise and leaves the attempted
\* change in memory, and what the operation returns tells a change that was
\* persisted from one that was not
C24_AsStated ==
    \A t \in Hits :
        /\ FailsSoft(t)
        /\ Updated(t, FALSE).ret # Updated(t, TRUE).ret
        /\ Answered(t, NoneSaved).response # Answered(t, AllSaved).response

\* The operations that are resets of counts
ResetOps == {"reset_level", "reset_all", "reset_counts"}

C28_RecordsInPlace ==
    [][\A l \in DOMAIN progress_data :
          /\ l \in DOMAIN progress_data'
          /\ Len(progress_data'[l]) = Len(progress_data[l])
          /\ \A i \in 1..Len(progress_data[l]) :
                \/ Identity(progress_data'[l][i]) = Identity(progress_data[l][i])
                \/ /\ last'.op = "correction"
                   /\ last'.level = l
                   /\ last'.idx = i]_vars

\* The list of the most difficult words names the second record of the
\* level ahead of the first, while the level keeps its two records
C28_Witness ==
    /\ last.op = "difficult_words"
    /\ last.words = <<2, 1>>
    /\ Len(progress_data[DefaultLevel]) = 2
    /\ GetCount(progress_data[DefaultLevel][2]) > GetCount(progress_data[DefaultLevel][1])
    /\ Identity(progress_data[DefaultLevel][1]) # Identity(progress_data[DefaultLevel][2])

\* The levels of the page that the step serves
Selected == {last'.levels[k] : k \in 1..Len(last'.levels)}

\* Every word of the selected levels is correct when the request arrives
AllMastered ==
    \A l \in Selected : \A i \in 1..Len(progress_data[l]) :
        progress_data[l][i].status = "correct"

\* The words of the selected levels that are up for practice when the
\* request arrives, the hard ones alone under difficult_only
Eligible ==
    {p \in [level : Selected, idx : 1..Len(vocab_df)] :
        /\ p.idx <= Len(progress_data[p.level])
        /\ progress_data[p.level][p.idx].status \in {"notyetanswered", "incorrect"}
        /\ (last'.difficult_only => IsHard(progress_data[p.level][p.idx]))}

\* C26: the page is "completed" exactly when every selected level is
\* mastered, else the error exactly when no word is eligible, else a word;
\* the word is one of the eligible words and carries its level
C26_ThreeOutcomes ==
    [][last'.op = "fetch" =>
          /\ last'.result \in {"completed", "error", "word"}
          /\ (last'.result = "completed") = AllMastered
          /\ (last'.result = "error") = (~AllMastered /\ Eligible = {})
          /\ last'.result = "word" =>
                /\ [level |-> last'.level, idx |-> last'.idx] \in Eligible
                /\ HasKey(WordAfter, "level")
                /\ WordAfter.level = last'.level
                /\ Identity(WordAfter) = Identity(WordBefore)]_vars

\* With difficult_only the page is the error: a word of the selected levels
\* is still to be practised, and none of those is marked hard
C26_Witness ==
    /\ last.op = "fetch"
    /\ last.result = "error"
    /\ last.difficult_only
    /\ last.levels = <<"A1.1", "A1.2">>
    /\ progress_data["A1.1"][1].status = "correct"
    /\ progress_data["A1.2"][1].status = "incorrect"

\* The store and the corpus that the step leaves
After == [data |-> progress_data', file |-> disk', fails |-> save_failures']

\* The step is a correction that took effect and changed the identity of
\* the word it addressed
Renamed ==
    /\ Corrected
    /\ last'.update_success
    /\ Identity(WordAfter) # Identity(WordBefore)

\* A wrong first answer, a difficulty mark and a correction of the article,
\* sent after the step for the word (level, id)
AnswerAfter(level, id) ==
    submit_word(After, vocab_df', level, id.artikel, id.deutsch, id.english,
        <<"b", "b">>, FALSE, "none", FALSE, FALSE, Patch(<<>>, "", <<>>, ""), TRUE, AllSaved)

MarkAfter(level, id) ==
    mark_difficulty(After, vocab_df', level, id.artikel, id.deutsch, id.english, TRUE, TRUE)

CorrectionAfter(level, id) ==
    submit_word(After, vocab_df', level, id.artikel, id.deutsch, id.english,
        id.deutsch, FALSE, "none", FALSE, TRUE, Patch(<<>>, "", <<"A">>, ""), TRUE, AllSaved)

\* The operations addressed by the old identity find no record and leave
\* the document and the corpus as they are
OldIdentityMisses ==
    LET old == Ident(WordBefore)
        level == last'.level
    IN  /\ AnswerAfter(level, old).response.idx = 0
        /\ AnswerAfter(level, old).m = After
        /\ MarkAfter(level, old).response.idx = 0
        /\ MarkAfter(level, old).m = After
        /\ CorrectionAfter(level, old).response.idx = 0
        /\ CorrectionAfter(level, old).m = After
        /\ CorrectionAfter(level, old).df = vocab_df'

\* The operations addressed by the new identity find the corrected record,
\* which has the status, the count and the difficulty the word had
NewIdentityHits ==
    LET new == Ident(WordAfter)
        level == last'.level
    IN  /\ AnswerAfter(level, new).response.idx = last'.idx
        /\ MarkAfter(level, new).response.idx = last'.idx
        /\ CorrectionAfter(level, new).response.idx = last'.idx
        /\ WordAfter.status = WordBefore.status
        /\ GetCount(WordAfter) = GetCount(WordBefore)
        /\ (last'.pre_difficulty = "none" => SameDifficulty(WordBefore, WordAfter))

\* C27 as stated: after a correction has changed the identity of a word, an
\* answer, a difficulty mark or a correction addressed by the old identity
\* finds no record and changes nothing, and addressed by the new identity it
\* finds the record with its status, count and difficulty
C27_AsStated ==
    [][Renamed => OldIdentityMisses /\ NewIdentityHits]_vars


\* The operations that only read the progress document
ReadOps == {"fetch", "progress", "stats", "difficult_words"}

\* C29 as stated: fetching the next word, the level statistics, the most
\* difficult words and the level progress leave the in-memory document and
\* the persisted document as they were: no record gains a level tag or a
\* back-filled incorrect_count
C29_AsStated ==
    [][last'.op \in ReadOps => progress_data' = progress_data /\ disk' = disk]_vars


\* ---------------------------------------------------------------------
\* A learner's session: the page is fetched without a filter and each
\* word it shows is answered correctly at the first attempt.  The session
\* (the selected levels, the answers given so far, the size of the pool at
\* its first fetch) is carried along with the last response.  Corrections
\* are sent between sessions.
\* ---------------------------------------------------------------------
LearnSelections == {<<"A1.1">>, <<"A1.1", "A1.2">>}

InSession(r) == "session" \in DOMAIN r

\* GET /Deutsch_Vocab_html?levels=...: the first fetch of a session, or the
\* fetch that follows an answer
LearnFetch ==
    \E levels \in LearnSelections, pick \in 1..Len(vocab_df) :
        /\ \/ last = Idle
           \/ InSession(last) /\ last.op = "submit" /\ last.session.levels = levels
        /\ \E out \in {fetch_next_word(Store, vocab_df, levels, FALSE, pick)} :
            /\ pick <= (IF out.response.result = "word" THEN Len(out.response.pool) ELSE 1)
            /\ progress_data' = out.m.data
            /\ disk' = out.m.file
            /\ save_failures' = out.m.fails
            /\ last' = out.response @@
                 [session |-> [levels |-> levels,
                               rounds |-> IF last = Idle THEN 0 ELSE last.session.rounds,
                               initial |-> IF last = Idle THEN Len(out.response.pool)
                                           ELSE last.session.initial]]
            /\ UNCHANGED <<vocab_df, recap_file>>

\* POST /Deutsch_Vocab_html with the form of the page just fetched: the
\* hidden fields carry the word shown, the answer is its german text and
\* is_correction is not set
LearnAnswer ==
    /\ InSession(last)
    /\ last.op = "fetch"
    /\ last.result = "word"
    /\ last.session.rounds <= last.session.initial
    /\ \E id \in {Ident(progress_data[last.level][last.idx])} :
       \E out \in {submit_answer(Store, vocab_df, last.level, id.artikel, id.deutsch,
                       id.english, id.deutsch, FALSE, "none", FALSE, AllSaved)} :
            /\ progress_data' = out.m.data
            /\ disk' = out.m.file
            /\ save_failures' = out.m.fails
            /\ last' = out.response @@
                 [session |-> [levels |-> last.session.levels,
                               rounds |-> last.session.rounds + 1,
                               initial |-> last.session.initial],
                  shown |-> [level |-> last.level, idx |-> last.idx]]
            /\ UNCHANGED <<vocab_df, recap_file>>

\* POST /Deutsch_Vocab_html with is_correction=true, between sessions
LearnCorrection ==
    /\ Waiting
    /\ \E t \in CorrectionTargets, corrected \in RecordPatches :
       \E out \in {submit_correction(Store, vocab_df, t.level, t.id.artikel,
                       t.id.deutsch, t.id.english, FALSE, "none", corrected, TRUE,
                       AllSaved)} :
            /\ progress_data' = out.m.data
            /\ disk' = out.m.file
            /\ save_failures' = out.m.fails
            /\ vocab_df' = out.df
            /\ last' = out.response
            /\ UNCHANGED recap_file

LearnNext ==
    \/ LearnFetch
    \/ LearnAnswer
    \/ LearnCorrection
    \/ Respond

LearnSpec == CorrectionInit /\ [][LearnNext]_vars

\* The words of the session's levels that are up for practice in doc
PoolOf(doc, levels) ==
    {p \in [level : {levels[k] : k \in 1..Len(levels)}, idx : 1..Len(vocab_df)] :
        /\ p.idx <= Len(doc[p.level])
        /\ doc[p.level][p.idx].status \in {"notyetanswered", "incorrect"}}

\* The step is an answer of the session
LearnerAnswers == InSession(last') /\ last'.op = "submit"

\* The step is a fetch of the session
LearnerFetches == InSession(last') /\ last'.op = "fetch"

\* What the claim says of a step of the session
LearnerProgresses ==
    /\ LearnerAnswers =>
          PoolOf(progress_data', last'.session.levels)
            = PoolOf(progress_data, last'.session.levels) \ {last'.shown}
    /\ LearnerFetches =>
          /\ last'.result # "error"
          /\ (last'.session.rounds >= last'.session.initial
                => last'.result = "completed")

\* C30 as stated: in a session without filter, a correct first answer for
\* the word shown takes exactly that word out of the pool and adds none; a
\* fetch never answers with the error, and answers "completed" once as many
\* answers were given as the pool held at the first fetch
C30_AsStated == [][LearnerProgresses]_vars

=============================================================================
